---- MODULE Spec2Model ----
(***************************************************************************)
(* Engine lifecycle of js/audio/profileEngine.js: the active-program slot, *)
(* the one-time audio initialisation, the shared Transport, the master     *)
(* chain builder and the start/stop/dispose contract of the sound engines, *)
(* with the loop schedule of the scientific engine and the audio           *)
(* controller that drives createEngine, stopEngine and disposeEngine.      *)
(*                                                                         *)
(* A createEngine call is an async function: it runs synchronously up to   *)
(* an await, is suspended there, and is resumed later.  Every await whose  *)
(* promise is settled by the audio library (Tone.start(), Reverb.generate) *)
(* is a suspension point at which any other operation may run.  The code   *)
(* between two suspension points is one atomic action.                     *)
(***************************************************************************)
EXTENDS Integers, Sequences, FiniteSets, TLC

\* ------------------------------------------------------------------ bounds

\* Number of createEngine calls issued in one behaviour.
MaxCalls == 2

\* Transport positions that are told apart (the position saturates there).
MaxPosition == 1

\* Length in seconds of the session whose loop times are told apart.
SessionSeconds == 323

\* Number of dispose() calls made directly on one engine object.
MaxDispose == 2

Calls == 1..MaxCalls

\* The empty active-program slot (currentEngine = null).
NoEngine == 0

\* ------------------------------------------------------- profile catalogue

\* The fields of each profile's config that select what start() builds.
SOUND_PROFILES ==
  [ science_focus |-> [type |-> "scientific", delay |-> TRUE,  highPassFreq |-> FALSE,
                       lowPassFreq |-> FALSE, bitCrush |-> FALSE, thunderEnabled |-> FALSE,
                       insectsEnabled |-> FALSE, streamEnabled |-> FALSE,
                       gammaEnabled |-> TRUE, textureEnabled |-> TRUE,
                       primeIntervals |-> <<17, 19, 23, 29, 31>>, bpm |-> 0],
    deep_focus    |-> [type |-> "generative", delay |-> TRUE,  highPassFreq |-> FALSE,
                       lowPassFreq |-> FALSE, bitCrush |-> FALSE, thunderEnabled |-> FALSE,
                       insectsEnabled |-> FALSE, streamEnabled |-> FALSE,
                       gammaEnabled |-> FALSE, textureEnabled |-> FALSE,
                       primeIntervals |-> <<>>, bpm |-> 0],
    binaural_alpha |-> [type |-> "binaural", delay |-> FALSE, highPassFreq |-> FALSE,
                       lowPassFreq |-> FALSE, bitCrush |-> FALSE, thunderEnabled |-> FALSE,
                       insectsEnabled |-> FALSE, streamEnabled |-> FALSE,
                       gammaEnabled |-> FALSE, textureEnabled |-> FALSE,
                       primeIntervals |-> <<>>, bpm |-> 0],
    brown_noise   |-> [type |-> "noise", delay |-> FALSE, highPassFreq |-> TRUE,
                       lowPassFreq |-> TRUE, bitCrush |-> FALSE, thunderEnabled |-> FALSE,
                       insectsEnabled |-> FALSE, streamEnabled |-> FALSE,
                       gammaEnabled |-> FALSE, textureEnabled |-> FALSE,
                       primeIntervals |-> <<>>, bpm |-> 0],
    rain          |-> [type |-> "rain", delay |-> FALSE, highPassFreq |-> FALSE,
                       lowPassFreq |-> FALSE, bitCrush |-> FALSE, thunderEnabled |-> TRUE,
                       insectsEnabled |-> FALSE, streamEnabled |-> FALSE,
                       gammaEnabled |-> FALSE, textureEnabled |-> FALSE,
                       primeIntervals |-> <<>>, bpm |-> 0],
    lofi          |-> [type |-> "lofi", delay |-> TRUE, highPassFreq |-> FALSE,
                       lowPassFreq |-> FALSE, bitCrush |-> TRUE, thunderEnabled |-> FALSE,
                       insectsEnabled |-> FALSE, streamEnabled |-> FALSE,
                       gammaEnabled |-> FALSE, textureEnabled |-> FALSE,
                       primeIntervals |-> <<>>, bpm |-> 75],
    minimal       |-> [type |-> "minimal", delay |-> TRUE, highPassFreq |-> FALSE,
                       lowPassFreq |-> FALSE, bitCrush |-> FALSE, thunderEnabled |-> FALSE,
                       insectsEnabled |-> FALSE, streamEnabled |-> FALSE,
                       gammaEnabled |-> FALSE, textureEnabled |-> FALSE,
                       primeIntervals |-> <<>>, bpm |-> 0],
    forest        |-> [type |-> "forest", delay |-> FALSE, highPassFreq |-> TRUE,
                       lowPassFreq |-> TRUE, bitCrush |-> FALSE, thunderEnabled |-> FALSE,
                       insectsEnabled |-> TRUE, streamEnabled |-> TRUE,
                       gammaEnabled |-> FALSE, textureEnabled |-> FALSE,
                       primeIntervals |-> <<>>, bpm |-> 0],
    \* the catalogue's rain profile with its thunder layer switched off
    rain_no_thunder |-> [type |-> "rain", delay |-> FALSE, highPassFreq |-> FALSE,
                       lowPassFreq |-> FALSE, bitCrush |-> FALSE, thunderEnabled |-> FALSE,
                       insectsEnabled |-> FALSE, streamEnabled |-> FALSE,
                       gammaEnabled |-> FALSE, textureEnabled |-> FALSE,
                       primeIntervals |-> <<>>, bpm |-> 0],
    \* the catalogue's scientific profile with its texture layer switched off
    science_no_texture |-> [type |-> "scientific", delay |-> TRUE,  highPassFreq |-> FALSE,
                       lowPassFreq |-> FALSE, bitCrush |-> FALSE, thunderEnabled |-> FALSE,
                       insectsEnabled |-> FALSE, streamEnabled |-> FALSE,
                       gammaEnabled |-> TRUE, textureEnabled |-> FALSE,
                       primeIntervals |-> <<17, 19, 23, 29, 31>>, bpm |-> 0],
    \* a profile whose config.type no engine class is registered for
    not_a_real    |-> [type |-> "not_a_real_type", delay |-> FALSE, highPassFreq |-> FALSE,
                       lowPassFreq |-> FALSE, bitCrush |-> FALSE, thunderEnabled |-> FALSE,
                       insectsEnabled |-> FALSE, streamEnabled |-> FALSE,
                       gammaEnabled |-> FALSE, textureEnabled |-> FALSE,
                       primeIntervals |-> <<>>, bpm |-> 0] ]

\* The profiles the createEngine calls of a behaviour are drawn from: a
\* variant with generators and a delay, one without generators, the one that
\* suspends a second time inside start(), and an unregistered type.
ProfileInputs == {"deep_focus", "brown_noise", "rain", "not_a_real"}

NoProfile == "none"

\* Engine type registry.
ENGINE_TYPES ==
  {"generative", "scientific", "binaural", "noise", "rain", "forest", "lofi", "minimal"}

\* --------------------------------------------------------------- sequences

Range(s) == {s[i] : i \in DOMAIN s}

\* <<e>> when the condition holds, else the empty sequence.
Opt(cond, e) == IF cond THEN <<e>> ELSE <<>>

\* The nodes of program p named by a sequence of node names.
NodesOf(p, names) == {<<p, n>> : n \in Range(names)}

\* ------------------------------------------------------ master chain build

\* The options each engine class passes to createMasterChain.
MasterChainOptions(config) ==
  CASE config.type = "generative" ->
         [delay |-> config.delay, highPass |-> TRUE, lowPass |-> TRUE, bitCrush |-> FALSE]
    [] config.type = "scientific" ->
         [delay |-> config.delay, highPass |-> TRUE, lowPass |-> TRUE, bitCrush |-> FALSE]
    [] config.type = "binaural" ->
         [delay |-> FALSE, highPass |-> FALSE, lowPass |-> TRUE, bitCrush |-> FALSE]
    [] config.type = "noise" ->
         [delay |-> FALSE, highPass |-> config.highPassFreq,
          lowPass |-> config.lowPassFreq, bitCrush |-> FALSE]
    [] config.type = "rain" ->
         [delay |-> FALSE, highPass |-> FALSE, lowPass |-> FALSE, bitCrush |-> FALSE]
    [] config.type = "forest" ->
         [delay |-> FALSE, highPass |-> config.highPassFreq,
          lowPass |-> config.lowPassFreq, bitCrush |-> FALSE]
    [] config.type = "lofi" ->
         [delay |-> config.delay, highPass |-> FALSE, lowPass |-> TRUE,
          bitCrush |-> config.bitCrush]
    [] config.type = "minimal" ->
         [delay |-> config.delay, highPass |-> FALSE, lowPass |-> FALSE, bitCrush |-> FALSE]

\* createMasterChain up to its await: the nodes constructed, in order, before
\* reverbNode.generate() suspends the build.  The limiter is connected to the
\* destination, every later node to the node before it.
ChainCreatedBeforeAwait(options) ==
  <<"limiter">>
    \o Opt(options.highPass, "highPassFilter")
    \o Opt(options.lowPass, "lowPassFilter")
    \o Opt(options.bitCrush, "bitCrusher")
    \o <<"reverbNode">>

\* createMasterChain after its await: the components list of the handle.
ChainComponents(options) ==
  ChainCreatedBeforeAwait(options) \o Opt(options.delay, "delayNode")

\* ------------------------------------------------------------ engine graphs

SynthNames == <<"synth0", "synth1", "synth2", "synth3", "synth4">>
PhaseLoopNames == <<"loop0", "loop1", "loop2", "loop3", "loop4">>

\* What start() pushes to this.components after the chain's components, up to
\* the end of start() or to its second await (RainEngine's thunder layer).
EngineComponents(config) ==
  CASE config.type = "generative" -> <<"padSynth", "modSynth", "noise">>
    [] config.type = "binaural" ->
         <<"leftOsc", "rightOsc", "leftSubOsc", "rightSubOsc", "leftPanner",
           "rightPanner", "driftLFO", "driftGain", "breathLFO", "noise", "noiseFilter">>
    [] config.type = "noise" ->
         <<"primaryNoise", "secondaryNoise", "wideNoise", "secondaryFilter",
           "breathFilter", "breathLFO", "autoPan">>
    [] config.type = "rain" ->
         <<"distantNoise", "distantFilter", "closeNoise", "closeLowPass",
           "closeHighPass", "windLFO1", "windLFO2", "smallDropSynth",
           "smallDropFilter", "medDropSynth", "medDropFilter", "largeDropSynth",
           "largeDropFilter">>
    [] config.type = "forest" ->
         <<"windNoise", "windFilter", "gustLFO1", "gustLFO2", "leavesNoise",
           "leavesFilter", "rustleLFO", "smallBirdSynth", "largeBirdSynth">>
           \o (IF config.insectsEnabled
                 THEN <<"cricketOsc", "cricketTremolo", "cricket2Osc", "cricket2Tremolo">>
                 ELSE <<>>)
           \o (IF config.streamEnabled
                 THEN <<"streamNoise", "streamFilter", "streamLFO">>
                 ELSE <<>>)
    [] config.type = "lofi" ->
         <<"wobbleFilter", "wobbleLFO", "keys", "bass", "vinylNoise", "vinylFilter",
           "popSynth">>
    [] config.type = "minimal" ->
         <<"mainSynth", "harmonicSynth", "subSynth", "breathFilter", "breathLFO">>
    [] config.type = "scientific" ->
         <<"pinkNoise">>
           \o (IF config.gammaEnabled
                 THEN <<"gammaCarrier", "gammaLFO", "gammaGain">> ELSE <<>>)
           \o SubSeq(SynthNames, 1, Len(config.primeIntervals))
           \o Opt(config.textureEnabled, "textureSynth")
           \o <<"breathingLFO", "breathingFilter">>

\* The sources and modulators start() starts (node.start()): they run until
\* they are stopped or disposed, whatever the Transport does.
EngineSources(config) ==
  CASE config.type = "generative" -> {"noise"}
    [] config.type = "binaural" ->
         {"leftOsc", "rightOsc", "leftSubOsc", "rightSubOsc", "driftLFO", "noise",
          "breathLFO"}
    [] config.type = "noise" ->
         {"primaryNoise", "secondaryNoise", "breathLFO", "autoPan", "wideNoise"}
    [] config.type = "rain" -> {"distantNoise", "closeNoise", "windLFO1", "windLFO2"}
    [] config.type = "forest" ->
         {"windNoise", "gustLFO1", "gustLFO2", "leavesNoise", "rustleLFO"}
           \cup (IF config.insectsEnabled
                   THEN {"cricketTremolo", "cricketOsc", "cricket2Tremolo", "cricket2Osc"}
                   ELSE {})
           \cup (IF config.streamEnabled THEN {"streamNoise", "streamLFO"} ELSE {})
    [] config.type = "lofi" -> {"wobbleLFO", "vinylNoise"}
    [] config.type = "minimal" -> {"breathLFO"}
    [] config.type = "scientific" ->
         {"pinkNoise", "breathingLFO"}
           \cup (IF config.gammaEnabled THEN {"gammaCarrier", "gammaLFO"} ELSE {})

\* A start() that makes no loop at all.
EngineLoopsNone(config) == <<>>

\* The loops start() starts on the Transport and pushes to this.loops, up to
\* the end of start() or to its second await.
EngineLoops(config) ==
  CASE config.type = "generative" -> <<"padLoop", "modLoop">>
    [] config.type = "binaural" -> <<>>
    [] config.type = "noise" -> <<>>
    [] config.type = "rain" -> <<"smallDropLoop", "medDropLoop", "largeDropLoop">>
    [] config.type = "forest" -> <<"smallBirdLoop", "largeBirdLoop">>
    [] config.type = "lofi" -> <<"popLoop", "chordLoop", "bassLoop">>
    [] config.type = "minimal" -> <<"mainLoop", "secondaryLoop">>
    [] config.type = "scientific" ->
         SubSeq(PhaseLoopNames, 1, Len(config.primeIntervals))
           \o Opt(config.textureEnabled, "textureLoop")

\* A phasing loop started with no stagger.
PhaseLoopStartUnstaggered(index) == 0

\* `loop.start(index * 2)`: the start time in seconds of the phasing loop made
\* for primeIntervals[index], index counted from 0.
PhaseLoopStart(index) == index * 2

\* `new Tone.Loop(..., 37)` and `textureLoop.start(5)`.
TextureLoop == [name |-> "textureLoop", interval |-> 37, startTime |-> 5]

\* The loops ScientificFocusEngine.start() makes, in the order it pushes them,
\* each with its interval and its start time in seconds of Transport time.
ScientificLoops(config) ==
  [i \in 1..Len(config.primeIntervals) |->
     [name |-> PhaseLoopNames[i],
      interval |-> config.primeIntervals[i],
      startTime |-> PhaseLoopStart(i - 1)]]
    \o (IF config.textureEnabled THEN <<TextureLoop>> ELSE <<>>)

\* A rain engine that builds its thunder layer whatever the flag says.
HasThunderAwaitAlways(config) == config.type = "rain"

\* RainEngine.start() awaits a second time, thunderReverb.generate(), when its
\* thunder layer is enabled; no other engine awaits after the chain build.
HasThunderAwait(config) == config.type = "rain" /\ config.thunderEnabled

\* The thunder layer's nodes constructed before that await ...
ThunderCreatedBeforeAwait == <<"thunderFilter", "thunderReverb">>

\* ... and what the layer pushes once the await has resolved.
ThunderComponents == <<"thunderSynth", "thunderReverb", "thunderFilter">>
ThunderLoops == <<"thunderLoop">>

\* ------------------------------------------------------------- connections

\* `chain.connect`, the handle's outputNode: the delay when one was requested,
\* else the reverb.
ChainOutput(options) == IF options.delay THEN "delayNode" ELSE "reverbNode"

\* Each node of a list connected to the node before it.
Follows(list) == {<<list[i + 1], list[i]>> : i \in 1..(Len(list) - 1)}

\* The connect() calls createMasterChain makes before its await: every node
\* after the limiter is connected to the outputNode of the moment.
ChainEdgesBeforeAwait(options) == Follows(ChainCreatedBeforeAwait(options))

\* ... and after it: `new Tone.PingPongDelay(delay).connect(reverbNode)`.
ChainEdgesAfterAwait(options) ==
  IF options.delay THEN {<<"delayNode", "reverbNode">>} ELSE {}

\* A builder that also connects the reverb to the output destination.
ChainToDestinationAndReverb == {"limiter", "reverbNode"}

\* The nodes createMasterChain connects to the output destination:
\* `new Tone.Limiter(limiterThreshold).toDestination()`, and no other.
ChainToDestination == {"limiter"}

\* The connect() calls of each start() up to its end or its second await, as
\* <<from, to>>; a connection to a parameter of a node counts as one to the
\* node.
EngineConnects(config) ==
  LET out == ChainOutput(MasterChainOptions(config)) IN
  CASE config.type = "generative" ->
         {<<"padSynth", out>>, <<"modSynth", "reverbNode">>, <<"noise", "reverbNode">>}
    [] config.type = "binaural" ->
         {<<"leftPanner", "reverbNode">>, <<"rightPanner", "reverbNode">>,
          <<"leftOsc", "leftPanner">>, <<"rightOsc", "rightPanner">>,
          <<"leftSubOsc", "leftPanner">>, <<"rightSubOsc", "rightPanner">>,
          <<"driftLFO", "driftGain">>, <<"driftGain", "leftOsc">>,
          <<"driftGain", "rightOsc">>, <<"noiseFilter", "reverbNode">>,
          <<"noise", "noiseFilter">>, <<"breathLFO", "noiseFilter">>}
    [] config.type = "noise" ->
         {<<"primaryNoise", "reverbNode">>, <<"secondaryFilter", "reverbNode">>,
          <<"secondaryNoise", "secondaryFilter">>, <<"breathFilter", "limiter">>,
          <<"breathLFO", "breathFilter">>, <<"autoPan", "reverbNode">>,
          <<"wideNoise", "autoPan">>}
    [] config.type = "rain" ->
         {<<"distantFilter", "reverbNode">>, <<"distantNoise", "distantFilter">>,
          <<"closeHighPass", "reverbNode">>, <<"closeLowPass", "closeHighPass">>,
          <<"closeNoise", "closeLowPass">>, <<"windLFO1", "closeLowPass">>,
          <<"windLFO2", "closeLowPass">>, <<"smallDropFilter", "reverbNode">>,
          <<"smallDropSynth", "smallDropFilter">>, <<"medDropFilter", "reverbNode">>,
          <<"medDropSynth", "medDropFilter">>, <<"largeDropFilter", "reverbNode">>,
          <<"largeDropSynth", "largeDropFilter">>}
           \cup (IF HasThunderAwait(config)
                   THEN {<<"thunderFilter", "reverbNode">>,
                         <<"thunderReverb", "thunderFilter">>}
                   ELSE {})
    [] config.type = "forest" ->
         {<<"windFilter", "reverbNode">>, <<"windNoise", "windFilter">>,
          <<"gustLFO1", "windFilter">>, <<"gustLFO2", "windFilter">>,
          <<"leavesFilter", "reverbNode">>, <<"leavesNoise", "leavesFilter">>,
          <<"rustleLFO", "leavesNoise">>, <<"smallBirdSynth", "reverbNode">>,
          <<"largeBirdSynth", "reverbNode">>}
           \cup (IF config.insectsEnabled
                   THEN {<<"cricketTremolo", "reverbNode">>,
                         <<"cricketOsc", "cricketTremolo">>,
                         <<"cricket2Tremolo", "reverbNode">>,
                         <<"cricket2Osc", "cricket2Tremolo">>}
                   ELSE {})
           \cup (IF config.streamEnabled
                   THEN {<<"streamFilter", "reverbNode">>,
                         <<"streamNoise", "streamFilter">>,
                         <<"streamLFO", "streamFilter">>}
                   ELSE {})
    [] config.type = "lofi" ->
         {<<"wobbleFilter", out>>, <<"wobbleLFO", "wobbleFilter">>,
          <<"keys", "wobbleFilter">>, <<"bass", out>>,
          <<"vinylFilter", "reverbNode">>, <<"vinylNoise", "vinylFilter">>,
          <<"popSynth", "reverbNode">>}
    [] config.type = "minimal" ->
         {<<"mainSynth", out>>, <<"harmonicSynth", "reverbNode">>,
          <<"subSynth", out>>, <<"breathFilter", "limiter">>,
          <<"breathLFO", "breathFilter">>}
    [] config.type = "scientific" ->
         {<<"pinkNoise", "reverbNode">>, <<"breathingFilter", "limiter">>,
          <<"breathingLFO", "breathingFilter">>}
           \cup (IF config.gammaEnabled
                   THEN {<<"gammaGain", "reverbNode">>, <<"gammaCarrier", "gammaGain">>,
                         <<"gammaLFO", "gammaGain">>}
                   ELSE {})
           \cup {<<SynthNames[i], out>> : i \in 1..Len(config.primeIntervals)}
           \cup (IF config.textureEnabled THEN {<<"textureSynth", "reverbNode">>} ELSE {})

\* The nodes start() calls disconnect() on, which drops every connection the
\* node had made so far ...
Disconnected(config) ==
  CASE config.type = "noise" -> {"primaryNoise"}
    [] config.type = "minimal" ->
         IF MasterChainOptions(config).delay THEN {"delayNode"} ELSE {}
    [] config.type = "scientific" -> {"reverbNode"}
    [] OTHER -> {}

\* ... and the connection start() gives the node instead.
Reconnects(config) ==
  CASE config.type = "noise" -> {<<"primaryNoise", "breathFilter">>}
    [] config.type = "minimal" ->
         IF MasterChainOptions(config).delay
           THEN {<<"delayNode", "breathFilter">>} ELSE {}
    [] config.type = "scientific" -> {<<"reverbNode", "breathingFilter">>}
    [] OTHER -> {}

\* `new Tone.Synth(...).connect(thunderReverb)`, after the second await.
ThunderConnects == {<<"thunderSynth", "thunderReverb">>}

\* -------------------------------------------------------------- timer config

\* config.js: the timer's settings.
CONFIG ==
  [TIMER |-> [DEFAULT_MINUTES |-> 25, DEFAULT_SECONDS |-> 0, BREAK_MINUTES |-> 5,
              LONG_BREAK_MINUTES |-> 15, TIME_ADJUSTMENT_STEP |-> 5,
              MIN_TIMER_MINUTES |-> 5, SESSIONS_BEFORE_LONG_BREAK |-> 4]]

\* `let timerInterval = null`.
NoInterval == 0

\* ------------------------------------------------------------- the note walk

\* Two runs of the same program, which differ in what Math.random() returns.
Runs == {1, 2}

\* `let lastNote = null`.
NoNote == 0

\* No loop has been constructed; no callback has drawn a random number.
NoLoop == "none"
NoDraw == [gate |-> FALSE, humanize |-> 0, velocity |-> 0]

\* A noteIndex, kept exactly: whole part, and the twelve decimals of the
\* fraction as two groups of six digits.
IndexZero == [whole |-> 0, high |-> 0, low |-> 0]

\* -------------------------------------------------------------------- state

VARIABLES
  currentEngine,     \* the active-program slot: a program, or NoEngine
  audioInitialized,  \* the module's audioInitialized flag
  transportState,    \* Tone.Transport.state: "stopped" or "started"
  transportPosition, \* Tone.Transport.position, in ticks
  transportBpm,      \* Tone.Transport.bpm.value
  transportEvents,   \* the loops scheduled on the Transport, as <<program, loop>>
  pc,                \* where each createEngine call stands
  profile,           \* the profile each call was given
  err,               \* the error a rejected call rejected with
  returned,          \* the program a fulfilled call resolved to
  components,        \* this.components of each call's program
  loops,             \* this.loops of each call's program
  disposeCount,      \* how many times dispose() ran on each call's program
  liveNodes,         \* audio nodes constructed and not disposed, as <<program, node>>
  destInputs,        \* the nodes connected to the output destination
  activeSources,     \* the sources that were started and neither stopped nor disposed
  fired,             \* the program whose loop callback the last step invoked
  latestBegun,       \* the program most recently constructed after a Transport reset
  stoppedActive,     \* the programs that were active when a stopEngine() returned
  abandoned,         \* the programs disposeEngine() disposed while inside start()
  now,               \* the Transport's time in seconds since it was started
  dpc,               \* where a dispose() that is followed statement by statement stands
  isPlaying,         \* the audio controller's isPlaying flag
  currentProfile,    \* the audio controller's currentProfile
  built,             \* the lists each program held when its start() completed
  edges,             \* the connections between audio nodes, as <<program, from, to>>
  timerMinutes,      \* timerState.js: timerMinutes
  timerSeconds,      \* timerState.js: timerSeconds
  timerInterval,     \* timerState.js: timerInterval, an interval id or NoInterval
  isTimerRunning,    \* timerState.js: isTimerRunning
  isBreakMode,       \* timerState.js: isBreakMode
  completedSessions, \* timerState.js: completedSessions
  liveIntervals,     \* the intervals set with setInterval and not cleared
  walkLoop,          \* the loop whose callback walks the notes, or NoLoop
  walkNotes,         \* how many notes the walked note set has
  drawn,             \* what Math.random() gave the last callback, in each of two runs
  noteIndex,         \* the loop closure's noteIndex, in each of the two runs
  lastNote,          \* the loop closure's lastNote, in each run
  walked,            \* the notes the walk selected so far, in each run
  lastHandler,       \* the handler of the application that ran last
  startBtnText,      \* main.js: startBtn.textContent
  stopBtnDisabled,   \* main.js: stopBtn.disabled
  timeButtonsDisabled, \* main.js: the disabled flag of the adjust and preset buttons
  lastReturn,        \* what the last call of decrementTimer() returned
  falseCalls,        \* the calls of decrementTimer() that returned false since the
                     \* timer's value was last set
  countdownFrom,     \* the seconds on the timer when its value was last set
  lastArgs           \* the arguments of the last call of setTimerValues()

vars ==
  <<currentEngine, audioInitialized, transportState, transportPosition, transportBpm,
    transportEvents, pc, profile, err, returned, components, loops, disposeCount,
    liveNodes, destInputs, activeSources, fired, latestBegun, stoppedActive, abandoned,
    now, dpc, isPlaying, currentProfile, built, edges, timerMinutes, timerSeconds,
    timerInterval, isTimerRunning, isBreakMode, completedSessions, liveIntervals,
    walkLoop, walkNotes, drawn, noteIndex, lastNote, walked, lastHandler,
    startBtnText, stopBtnDisabled, timeButtonsDisabled, lastReturn, falseCalls,
    countdownFrom, lastArgs>>

\* The variables the lifecycle operations of the engine module never touch.
clockVars == <<now>>
stepVars == <<dpc>>
controllerVars == <<isPlaying, currentProfile>>
historyVars == <<built>>
graphVars == <<edges>>
timerVars ==
  <<timerMinutes, timerSeconds, timerInterval, isTimerRunning, isBreakMode,
    completedSessions, liveIntervals>>
walkVars == <<walkLoop, walkNotes, drawn, noteIndex, lastNote, walked>>
callVars == <<lastHandler>>
uiVars == <<startBtnText, stopBtnDisabled, timeButtonsDisabled>>
countVars == <<lastReturn, falseCalls, countdownFrom, lastArgs>>

\* The engine module's own state: the session, the Transport, the calls and
\* the programs.
engineState ==
  <<currentEngine, audioInitialized, transportState, transportPosition, transportBpm,
    transportEvents, pc, profile, err, returned, components, loops, disposeCount,
    liveNodes, destInputs, activeSources, fired, latestBegun, stoppedActive, abandoned>>

\* The connection graph, the timer and the note walk together.
appVars == <<graphVars, timerVars, walkVars, callVars, uiVars, countVars>>

\* The program a createEngine call constructs is named by the call: program c
\* is the engine object that call c assigns to currentEngine.
Programs == Calls

Suspended == {"toneStart", "initReturn", "chainBuild", "thunderBuild"}
InStart == {"chainBuild", "thunderBuild"}
Settled == {"fulfilled", "rejected"}

ConfigOf(c) == SOUND_PROFILES[profile[c]]

InFlight == {c \in Calls : pc[c] \in Suspended}

\* No dispose() is being followed statement by statement.
NoDispose == [prog |-> NoEngine, stage |-> 0, index |-> 0]

\* The engine module, the audio controller and the histories before anything ran.
InitAudio ==
  /\ currentEngine = NoEngine
  /\ audioInitialized = FALSE
  /\ transportState = "stopped"
  /\ transportPosition = 0
  /\ transportBpm = 0  \* the library's default tempo: no profile has set one
  /\ transportEvents = {}
  /\ pc = [c \in Calls |-> "idle"]
  /\ profile = [c \in Calls |-> NoProfile]
  /\ err = [c \in Calls |-> "none"]
  /\ returned = [c \in Calls |-> NoEngine]
  /\ components = [c \in Calls |-> <<>>]
  /\ loops = [c \in Calls |-> <<>>]
  /\ disposeCount = [c \in Calls |-> 0]
  /\ liveNodes = {}
  /\ destInputs = {}
  /\ activeSources = {}
  /\ fired = NoEngine
  /\ latestBegun = NoEngine
  /\ stoppedActive = {}
  /\ abandoned = {}
  /\ now = 0
  /\ dpc = NoDispose
  /\ isPlaying = FALSE
  /\ currentProfile = "science_focus"  \* getDefaultProfile()
  /\ built = [c \in Calls |-> [components |-> <<>>, loops |-> <<>>]]
  /\ edges = {}
  /\ walkLoop = NoLoop
  /\ walkNotes = 0
  /\ drawn = [r \in Runs |-> NoDraw]
  /\ noteIndex = [r \in Runs |-> IndexZero]
  /\ lastNote = [r \in Runs |-> NoNote]
  /\ walked = [r \in Runs |-> <<>>]
  /\ lastHandler = "none"

\* timerState.js as loaded, and the page after `updateTimeButtonsState()` at the
\* end of initApp(): the start button invites to START (CONFIG.MESSAGES.READY)
\* and the stop button is as stopTimer() leaves it.
InitTimer ==
  /\ timerMinutes = CONFIG.TIMER.DEFAULT_MINUTES
  /\ timerSeconds = CONFIG.TIMER.DEFAULT_SECONDS
  /\ timerInterval = NoInterval
  /\ isTimerRunning = FALSE
  /\ isBreakMode = FALSE
  /\ completedSessions = 0
  /\ liveIntervals = {}
  /\ startBtnText = "START"
  /\ stopBtnDisabled = TRUE
  /\ timeButtonsDisabled = FALSE
  /\ lastReturn = "none"
  /\ falseCalls = 0
  /\ countdownFrom = 60 * CONFIG.TIMER.DEFAULT_MINUTES + CONFIG.TIMER.DEFAULT_SECONDS
  /\ lastArgs = <<>>  \* setTimerValues() was not called

Init == InitAudio /\ InitTimer

\* ------------------------------------------------- SoundEngine.stop/dispose

\* SoundEngine.stop() on program p: every loop in this.loops is stopped and
\* cancelled, which takes its events off the Transport ...
EventsAfterStop(p) == transportEvents \ NodesOf(p, loops[p])

\* ... and every component in this.components is released / stopped.
SourcesAfterStop(p) == activeSources \ NodesOf(p, components[p])

\* A dispose() that releases its components but keeps them in this.components.
DisposeKeepsComponents(p) ==
  /\ transportEvents' = EventsAfterStop(p)
  /\ activeSources' = SourcesAfterStop(p)
  /\ liveNodes' = liveNodes \ NodesOf(p, components[p])
  /\ destInputs' = destInputs \ NodesOf(p, components[p])
  /\ loops' = [loops EXCEPT ![p] = <<>>]
  /\ components' = components
  /\ disposeCount' = [disposeCount EXCEPT ![p] = @ + 1]

\* SoundEngine.dispose() on program p: stop(), this.loops = [], dispose of every
\* component in this.components, this.components = [].
Dispose(p) ==
  /\ transportEvents' = EventsAfterStop(p)
  /\ activeSources' = SourcesAfterStop(p)
  /\ liveNodes' = liveNodes \ NodesOf(p, components[p])
  /\ destInputs' = destInputs \ NodesOf(p, components[p])
  /\ loops' = [loops EXCEPT ![p] = <<>>]
  /\ components' = [components EXCEPT ![p] = <<>>]
  /\ disposeCount' = [disposeCount EXCEPT ![p] = @ + 1]

\* The engine-side variables Dispose sets.
engineVars ==
  <<transportEvents, activeSources, liveNodes, destInputs, loops, components, disposeCount>>

\* ---------------------------------------------------------------- createEngine

\* A createEngine that clears the slot without disposing its occupant.
DisposeCurrentSkipped ==
  /\ UNCHANGED engineVars
  /\ currentEngine' = NoEngine

\* A createEngine that keeps an engine that was only stopped, to start it again.
DisposeCurrentKeepsStopped ==
  IF currentEngine # NoEngine /\ currentEngine \in stoppedActive
    THEN UNCHANGED <<engineVars, currentEngine>>
    ELSE /\ IF currentEngine # NoEngine
              THEN Dispose(currentEngine)
              ELSE UNCHANGED engineVars
         /\ currentEngine' = NoEngine

\* `if (currentEngine) { currentEngine.dispose(); currentEngine = null; }`
DisposeCurrent ==
  /\ IF currentEngine # NoEngine
       THEN Dispose(currentEngine)
       ELSE UNCHANGED engineVars
  /\ currentEngine' = NoEngine

\* createEngine(profile), from its entry to `await initProfileEngine()`: the
\* current engine, if any, is disposed and the slot cleared; initProfileEngine
\* returns at once when audioInitialized, else it awaits Tone.start().
CreateBegin(c, id) ==
  /\ pc[c] = "idle"
  /\ \A d \in Calls : d < c => pc[d] # "idle"
  /\ DisposeCurrent
  /\ profile' = [profile EXCEPT ![c] = id]
  /\ pc' = [pc EXCEPT ![c] = IF audioInitialized THEN "initReturn" ELSE "toneStart"]
  /\ fired' = NoEngine
  /\ UNCHANGED <<audioInitialized, transportState, transportPosition, transportBpm,
                 err, returned, latestBegun, stoppedActive, abandoned>>

\* An initProfileEngine that sets the flag before Tone.start() has resolved.
InitFailFlagSet(c) ==
  /\ pc[c] = "toneStart"
  /\ pc' = [pc EXCEPT ![c] = "rejected"]
  /\ err' = [err EXCEPT ![c] = "AudioInitError"]
  /\ audioInitialized' = TRUE
  /\ fired' = NoEngine
  /\ UNCHANGED <<currentEngine, transportState, transportPosition,
                 transportBpm, profile, returned, engineVars, latestBegun,
                 stoppedActive, abandoned>>

\* Tone.start() rejects: initProfileEngine catches the error and returns
\* false, and createEngine throws 'Failed to initialize audio context'.
InitFail(c) ==
  /\ pc[c] = "toneStart"
  /\ pc' = [pc EXCEPT ![c] = "rejected"]
  /\ err' = [err EXCEPT ![c] = "AudioInitError"]
  /\ fired' = NoEngine
  /\ UNCHANGED <<currentEngine, audioInitialized, transportState, transportPosition,
                 transportBpm, profile, returned, engineVars, latestBegun,
                 stoppedActive, abandoned>>

\* A createEngine that assigns the slot before it has looked the type up.
UnknownTypeThrowsLate(c) ==
  /\ pc' = [pc EXCEPT ![c] = "rejected"]
  /\ err' = [err EXCEPT ![c] = "UnknownProfileTypeError"]
  /\ currentEngine' = c
  /\ UNCHANGED <<transportBpm, liveNodes, destInputs, latestBegun>>

\* `if (!EngineClass) throw new Error('Unknown profile type: ...')`: nothing
\* has been constructed or assigned yet.
UnknownTypeThrows(c) ==
  /\ pc' = [pc EXCEPT ![c] = "rejected"]
  /\ err' = [err EXCEPT ![c] = "UnknownProfileTypeError"]
  /\ UNCHANGED <<currentEngine, transportBpm, liveNodes, destInputs, latestBegun>>

\* initProfileEngine returns true (Tone.start() resolved, or the flag was
\* already set): the Transport is reset, then the engine class is looked up.
\* An unregistered type throws.  Otherwise the engine is constructed and
\* assigned to currentEngine, and start() runs up to the await inside
\* createMasterChain, which has by then constructed the chain's nodes up to
\* the reverb and connected the limiter to the destination.
InitOk(c) ==
  /\ pc[c] \in {"toneStart", "initReturn"}
  /\ audioInitialized' = (audioInitialized \/ pc[c] = "toneStart")
  /\ transportState' = "stopped"
  /\ transportEvents' = {}
  /\ transportPosition' = 0
  /\ fired' = NoEngine
  /\ IF ConfigOf(c).type \notin ENGINE_TYPES
       THEN UnknownTypeThrows(c)
       ELSE /\ currentEngine' = c
            /\ latestBegun' = c
            /\ transportBpm' = IF ConfigOf(c).type = "lofi"
                                 THEN ConfigOf(c).bpm ELSE transportBpm
            /\ liveNodes' = liveNodes \cup
                 NodesOf(c, ChainCreatedBeforeAwait(MasterChainOptions(ConfigOf(c))))
            /\ destInputs' = destInputs \cup {<<c, n>> : n \in ChainToDestination}
            /\ pc' = [pc EXCEPT ![c] = "chainBuild"]
            /\ UNCHANGED err
  /\ UNCHANGED <<profile, returned, components, loops, disposeCount, activeSources,
                 stoppedActive, abandoned>>

\* The end of createEngine once start() has resolved: Tone.Transport.start()
\* and `return currentEngine`.
Finish(c) ==
  /\ transportState' = "started"
  /\ returned' = [returned EXCEPT ![c] = currentEngine]
  /\ pc' = [pc EXCEPT ![c] = "fulfilled"]

\* reverbNode.generate() rejects inside createMasterChain: the error leaves
\* createMasterChain, start() and createEngine; nothing catches it.
ChainFail(c) ==
  /\ pc[c] = "chainBuild"
  /\ pc' = [pc EXCEPT ![c] = "rejected"]
  /\ err' = [err EXCEPT ![c] = "ChainBuildError"]
  /\ fired' = NoEngine
  /\ UNCHANGED <<currentEngine, audioInitialized, transportState, transportPosition,
                 transportBpm, profile, returned, engineVars, latestBegun,
                 stoppedActive, abandoned>>

\* reverbNode.generate() resolves: createMasterChain adds the optional delay
\* and returns the handle; start() pushes the chain's components, constructs
\* and starts its own nodes, starts its loops on the Transport and pushes them.
\* RainEngine with the thunder layer then constructs the layer's filter and
\* reverb and awaits again; every other start() returns, and createEngine
\* starts the Transport and returns.
ChainOk(c) ==
  LET config == ConfigOf(c)
      pushed == ChainComponents(MasterChainOptions(config)) \o EngineComponents(config)
  IN
  /\ pc[c] = "chainBuild"
  /\ components' = [components EXCEPT ![c] = @ \o pushed]
  /\ loops' = [loops EXCEPT ![c] = @ \o EngineLoops(config)]
  /\ transportEvents' = transportEvents \cup NodesOf(c, EngineLoops(config))
  /\ activeSources' = activeSources \cup {<<c, n>> : n \in EngineSources(config)}
  /\ liveNodes' = liveNodes \cup NodesOf(c, pushed) \cup
       (IF HasThunderAwait(config) THEN NodesOf(c, ThunderCreatedBeforeAwait) ELSE {})
  /\ IF HasThunderAwait(config)
       THEN /\ pc' = [pc EXCEPT ![c] = "thunderBuild"]
            /\ UNCHANGED <<transportState, returned>>
       ELSE Finish(c)
  /\ fired' = NoEngine
  /\ UNCHANGED <<currentEngine, audioInitialized, transportPosition, transportBpm,
                 profile, err, disposeCount, destInputs, latestBegun, stoppedActive,
                 abandoned>>

\* thunderReverb.generate() rejects inside RainEngine.start().
ThunderFail(c) ==
  /\ pc[c] = "thunderBuild"
  /\ pc' = [pc EXCEPT ![c] = "rejected"]
  /\ err' = [err EXCEPT ![c] = "LayerBuildError"]
  /\ fired' = NoEngine
  /\ UNCHANGED <<currentEngine, audioInitialized, transportState, transportPosition,
                 transportBpm, profile, returned, engineVars, latestBegun,
                 stoppedActive, abandoned>>

\* thunderReverb.generate() resolves: the thunder synth and loop are made, the
\* loop is started and pushed, start() returns and createEngine finishes.
ThunderOk(c) ==
  /\ pc[c] = "thunderBuild"
  /\ components' = [components EXCEPT ![c] = @ \o ThunderComponents]
  /\ loops' = [loops EXCEPT ![c] = @ \o ThunderLoops]
  /\ transportEvents' = transportEvents \cup NodesOf(c, ThunderLoops)
  /\ liveNodes' = liveNodes \cup NodesOf(c, ThunderComponents)
  /\ Finish(c)
  /\ fired' = NoEngine
  /\ UNCHANGED <<currentEngine, audioInitialized, transportPosition, transportBpm,
                 profile, err, disposeCount, destInputs, activeSources, latestBegun,
                 stoppedActive, abandoned>>

\* A suspended createEngine call is resumed: the promise it awaits has settled.
Resume(c) ==
  \/ InitFail(c)
  \/ InitOk(c)
  \/ ChainFail(c)
  \/ ChainOk(c)
  \/ ThunderFail(c)
  \/ ThunderOk(c)

\* ------------------------------------------------- stopEngine / disposeEngine

\* A stopEngine whose stop() also forgets the loops it has cancelled.
StopEngineClearsLoops ==
  /\ IF currentEngine # NoEngine
       THEN /\ transportEvents' = EventsAfterStop(currentEngine)
            /\ activeSources' = SourcesAfterStop(currentEngine)
            /\ stoppedActive' = stoppedActive \cup {currentEngine}
            /\ loops' = [loops EXCEPT ![currentEngine] = <<>>]
       ELSE UNCHANGED <<transportEvents, activeSources, stoppedActive, loops>>
  /\ transportState' = "stopped"
  /\ fired' = NoEngine
  /\ UNCHANGED <<currentEngine, audioInitialized, transportPosition, transportBpm, pc,
                 profile, err, returned, components, disposeCount, liveNodes,
                 destInputs, latestBegun, abandoned>>

\* stopEngine(): stop() on the current engine if there is one, then
\* Tone.Transport.stop().
StopEngine ==
  /\ IF currentEngine # NoEngine
       THEN /\ transportEvents' = EventsAfterStop(currentEngine)
            /\ activeSources' = SourcesAfterStop(currentEngine)
            /\ stoppedActive' = stoppedActive \cup {currentEngine}
       ELSE UNCHANGED <<transportEvents, activeSources, stoppedActive>>
  /\ transportState' = "stopped"
  /\ fired' = NoEngine
  /\ UNCHANGED <<currentEngine, audioInitialized, transportPosition, transportBpm, pc,
                 profile, err, returned, components, loops, disposeCount, liveNodes,
                 destInputs, latestBegun, abandoned>>

\* A disposeEngine that stops the Transport but does not cancel what is
\* scheduled on it: only the disposed program's own loops are taken off.
DisposeEngineNoCancel ==
  /\ IF currentEngine # NoEngine
       THEN /\ Dispose(currentEngine)
            /\ abandoned' = IF pc[currentEngine] \in InStart
                              THEN abandoned \cup {currentEngine} ELSE abandoned
       ELSE UNCHANGED <<engineVars, abandoned>>
  /\ currentEngine' = NoEngine
  /\ transportState' = "stopped"
  /\ fired' = NoEngine
  /\ UNCHANGED <<audioInitialized, transportPosition, transportBpm, pc, profile, err,
                 returned, latestBegun, stoppedActive>>

\* disposeEngine(): dispose() on the current engine if there is one and the
\* slot cleared, then Tone.Transport.stop() and Tone.Transport.cancel().
DisposeEngine ==
  /\ IF currentEngine # NoEngine
       THEN /\ activeSources' = SourcesAfterStop(currentEngine)
            /\ liveNodes' = liveNodes \ NodesOf(currentEngine, components[currentEngine])
            /\ destInputs' = destInputs \ NodesOf(currentEngine, components[currentEngine])
            /\ loops' = [loops EXCEPT ![currentEngine] = <<>>]
            /\ components' = [components EXCEPT ![currentEngine] = <<>>]
            /\ disposeCount' = [disposeCount EXCEPT ![currentEngine] = @ + 1]
            /\ abandoned' = IF pc[currentEngine] \in InStart
                              THEN abandoned \cup {currentEngine} ELSE abandoned
       ELSE UNCHANGED <<activeSources, liveNodes, destInputs, loops, components,
                        disposeCount, abandoned>>
  /\ currentEngine' = NoEngine
  /\ transportState' = "stopped"
  /\ transportEvents' = {}
  /\ fired' = NoEngine
  /\ UNCHANGED <<audioInitialized, transportPosition, transportBpm, pc, profile, err,
                 returned, latestBegun, stoppedActive>>

\* ------------------------------------------- methods called on an engine object

\* The caller holds a reference to program p: createEngine returned it, or
\* getCurrentEngine() did while it was in the slot.
Exposed(p) ==
  \/ pc[p] \in InStart \cup {"fulfilled"}
  \/ err[p] \in {"ChainBuildError", "LayerBuildError"}

\* engine.stop() on a held reference.
EngineStop(p) ==
  /\ Exposed(p)
  /\ transportEvents' = EventsAfterStop(p)
  /\ activeSources' = SourcesAfterStop(p)
  /\ fired' = NoEngine
  /\ UNCHANGED <<currentEngine, audioInitialized, transportState, transportPosition,
                 transportBpm, pc, profile, err, returned, components, loops,
                 disposeCount, liveNodes, destInputs, latestBegun, stoppedActive,
                 abandoned>>

\* engine.dispose() on a held reference.
EngineDispose(p) ==
  /\ Exposed(p)
  /\ disposeCount[p] < MaxDispose
  /\ Dispose(p)
  /\ fired' = NoEngine
  /\ UNCHANGED <<currentEngine, audioInitialized, transportState, transportPosition,
                 transportBpm, pc, profile, err, returned, latestBegun, stoppedActive,
                 abandoned>>

\* --------------------------------------- dispose(), statement by statement

\* A dispose() that releases its components first and stops its loops after.
DisposeOrderReleaseFirst ==
  <<"disposeComponents", "stopLoops", "stopComponents", "clearLoops", "clearComponents">>

\* The statements of dispose() in the order they run: this.stop(), which is
\* loops.forEach(stop, cancel) then components.forEach(releaseAll, stop); then
\* this.loops = []; components.forEach(dispose); this.components = [].
DisposeOrder ==
  <<"stopLoops", "stopComponents", "clearLoops", "disposeComponents", "clearComponents">>

DisposeStage == IF dpc.stage \in DOMAIN DisposeOrder THEN DisposeOrder[dpc.stage] ELSE "return"

\* The list a forEach of dispose() walks.
StageList(p) ==
  CASE DisposeStage = "stopLoops" -> loops[p]
    [] DisposeStage \in {"stopComponents", "disposeComponents"} -> components[p]
    [] OTHER -> <<>>

\* disposeEngine() finds a current engine and enters its dispose().
DisposeEnter ==
  /\ dpc = NoDispose
  /\ currentEngine # NoEngine
  /\ dpc' = [prog |-> currentEngine, stage |-> 1, index |-> 1]
  /\ fired' = NoEngine
  /\ UNCHANGED <<currentEngine, audioInitialized, transportState, transportPosition,
                 transportBpm, pc, profile, err, returned, engineVars, latestBegun,
                 stoppedActive, abandoned>>

\* One iteration of the forEach dispose() is in, or the statement after it.
DisposeStep ==
  LET p == dpc.prog
      list == StageList(p)
      inLoop == dpc.index <= Len(list)
      node == <<p, list[dpc.index]>>
  IN
  /\ p # NoEngine
  /\ DisposeStage # "return"
  /\ dpc' = IF inLoop THEN [dpc EXCEPT !.index = @ + 1]
                      ELSE [dpc EXCEPT !.stage = @ + 1, !.index = 1]
  /\ transportEvents' = IF inLoop /\ DisposeStage = "stopLoops"
                           THEN transportEvents \ {node} ELSE transportEvents
  /\ activeSources' = IF inLoop /\ DisposeStage = "stopComponents"
                         THEN activeSources \ {node} ELSE activeSources
  /\ liveNodes' = IF inLoop /\ DisposeStage = "disposeComponents"
                     THEN liveNodes \ {node} ELSE liveNodes
  /\ destInputs' = IF inLoop /\ DisposeStage = "disposeComponents"
                      THEN destInputs \ {node} ELSE destInputs
  /\ loops' = IF DisposeStage = "clearLoops"
                 THEN [loops EXCEPT ![p] = <<>>] ELSE loops
  /\ components' = IF DisposeStage = "clearComponents"
                      THEN [components EXCEPT ![p] = <<>>] ELSE components
  /\ disposeCount' = IF DisposeStage = "clearComponents"
                        THEN [disposeCount EXCEPT ![p] = @ + 1] ELSE disposeCount
  /\ UNCHANGED <<currentEngine, audioInitialized, transportState, transportPosition,
                 transportBpm, pc, profile, err, returned, fired, latestBegun,
                 stoppedActive, abandoned>>

\* dispose() has returned to disposeEngine(): currentEngine = null, then
\* Tone.Transport.stop() and Tone.Transport.cancel().
DisposeReturn ==
  /\ dpc.prog # NoEngine
  /\ DisposeStage = "return"
  /\ dpc' = NoDispose
  /\ abandoned' = IF pc[dpc.prog] \in InStart
                     THEN abandoned \cup {dpc.prog} ELSE abandoned
  /\ currentEngine' = NoEngine
  /\ transportState' = "stopped"
  /\ transportEvents' = {}
  /\ UNCHANGED <<audioInitialized, transportPosition, transportBpm, pc, profile, err,
                 returned, components, loops, disposeCount, liveNodes, destInputs,
                 activeSources, fired, latestBegun, stoppedActive>>

\* ------------------------------------------------------------ audio controller

\* The profiles the profile picker hands to setProfile.
PickerInputs == {"deep_focus", "rain"}

\* startGenerativeMusic(), from its entry to the await inside createEngine:
\* `if (isPlaying) return;` then `await createEngine(currentProfile)`.
StartGenerativeMusic(c) ==
  /\ ~isPlaying
  /\ CreateBegin(c, currentProfile)
  /\ UNCHANGED <<isPlaying, currentProfile>>

\* A step of the createEngine call startGenerativeMusic awaits; when the call
\* is fulfilled startGenerativeMusic continues with `isPlaying = true`, when it
\* rejects the catch block leaves isPlaying as it is.
MusicResume(c) ==
  /\ Resume(c)
  /\ isPlaying' = (isPlaying \/ pc'[c] = "fulfilled")
  /\ UNCHANGED currentProfile

\* pauseGenerativeMusic(): `if (!isPlaying) return;` Tone.Transport.pause(),
\* stopEngine(), which stops the Transport, and `isPlaying = false`.
PauseGenerativeMusic ==
  /\ isPlaying
  /\ StopEngine
  /\ isPlaying' = FALSE
  /\ UNCHANGED currentProfile

\* stopGenerativeMusic(): `if (!isPlaying) return;` Tone.Transport.stop(),
\* disposeEngine() and `isPlaying = false`.
StopGenerativeMusic ==
  /\ isPlaying
  /\ DisposeEngine
  /\ isPlaying' = FALSE
  /\ UNCHANGED currentProfile

\* setProfile(profile) while nothing is playing: `currentProfile = profile`.
SetProfileIdle(id) ==
  /\ ~isPlaying
  /\ currentProfile' = id
  /\ UNCHANGED <<isPlaying, currentEngine, audioInitialized, transportState,
                 transportPosition, transportBpm, pc, profile, err, returned, engineVars,
                 fired, latestBegun, stoppedActive, abandoned>>

\* setProfile(profile) while playing: stopGenerativeMusic(), `currentProfile =
\* profile`, then startGenerativeMusic() up to the await inside createEngine,
\* which finds the slot empty and isPlaying false.
SetProfilePlaying(c, id) ==
  /\ isPlaying
  /\ pc[c] = "idle"
  /\ \A d \in Calls : d < c => pc[d] # "idle"
  /\ IF currentEngine # NoEngine
       THEN /\ Dispose(currentEngine)
            /\ abandoned' = IF pc[currentEngine] \in InStart
                              THEN abandoned \cup {currentEngine} ELSE abandoned
       ELSE UNCHANGED <<activeSources, liveNodes, destInputs, loops, components,
                        disposeCount, abandoned>>
  /\ currentEngine' = NoEngine
  /\ transportState' = "stopped"
  /\ transportEvents' = {}
  /\ isPlaying' = FALSE
  /\ currentProfile' = id
  /\ profile' = [profile EXCEPT ![c] = id]
  /\ pc' = [pc EXCEPT ![c] = IF audioInitialized THEN "initReturn" ELSE "toneStart"]
  /\ fired' = NoEngine
  /\ UNCHANGED <<audioInitialized, transportPosition, transportBpm, err, returned,
                 latestBegun, stoppedActive>>

\* ------------------------------------------------------------------ the timer

\* How many minutes the model lets the increase button reach, how many seconds
\* of a minute it lets the countdown run, and how many sessions it counts.
MaxMinutes == 30
MaxElapsed == 2
MaxSessions == 4

Max(a, b) == IF a >= b THEN a ELSE b
Min(a, b) == IF a <= b THEN a ELSE b

\* setTimerValues() storing its arguments as they are given.
SetTimerValuesUnclamped(minutes, seconds) ==
  /\ timerMinutes' = minutes
  /\ timerSeconds' = seconds

\* setTimerValues(minutes, seconds).
SetTimerValues(minutes, seconds) ==
  /\ timerMinutes' = Max(0, minutes)
  /\ timerSeconds' = Max(0, Min(59, seconds))

\* resetTimer().
ResetTimer ==
  /\ timerMinutes' = CONFIG.TIMER.DEFAULT_MINUTES
  /\ timerSeconds' = CONFIG.TIMER.DEFAULT_SECONDS
  /\ UNCHANGED isBreakMode

\* endBreak().
EndBreak ==
  /\ isBreakMode' = FALSE
  /\ timerMinutes' = CONFIG.TIMER.DEFAULT_MINUTES
  /\ timerSeconds' = CONFIG.TIMER.DEFAULT_SECONDS

\* startBreak() that never grants the long break.
StartBreakShort(completed) ==
  /\ isBreakMode' = TRUE
  /\ timerMinutes' = CONFIG.TIMER.BREAK_MINUTES
  /\ timerSeconds' = 0

\* startBreak(), called when completedSessions has become `completed`.
StartBreak(completed) ==
  LET isLongBreak ==
        completed % CONFIG.TIMER.SESSIONS_BEFORE_LONG_BREAK = 0 /\ completed > 0
  IN /\ isBreakMode' = TRUE
     /\ timerMinutes' = IF isLongBreak THEN CONFIG.TIMER.LONG_BREAK_MINUTES
                                       ELSE CONFIG.TIMER.BREAK_MINUTES
     /\ timerSeconds' = 0

\* clearTimerInterval() that forgets the interval without clearing it.
ClearTimerIntervalForgets ==
  /\ timerInterval' = NoInterval
  /\ UNCHANGED liveIntervals

\* clearTimerInterval(): `if (timerInterval) { clearInterval(timerInterval);
\* timerInterval = null; }`.
ClearTimerInterval ==
  /\ liveIntervals' = liveIntervals \ {timerInterval}
  /\ timerInterval' = NoInterval

\* The id setInterval returns: one that names no live interval.
NewInterval ==
  CHOOSE i \in 1..(Cardinality(liveIntervals) + 1) : i \notin liveIntervals

\* The audio controller and the engine are left as they are: the guard of the
\* music function returned at once.
MusicUntouched == UNCHANGED <<engineState, controllerVars>>

\* startTimer(): `if (isRunning) return;` setTimerRunning(true),
\* startGenerativeMusic() up to its await, setInterval and setTimerInterval.
StartTimer ==
  /\ ~isTimerRunning
  /\ isTimerRunning' = TRUE
  /\ IF isPlaying THEN MusicUntouched ELSE \E c \in Calls : StartGenerativeMusic(c)
  /\ liveIntervals' = liveIntervals \cup {NewInterval}
  /\ timerInterval' = NewInterval
  /\ UNCHANGED <<timerMinutes, timerSeconds, isBreakMode, completedSessions>>

\* pauseTimer(): `if (!isRunning) return;` setTimerRunning(false),
\* clearTimerInterval() and pauseGenerativeMusic().
PauseTimer ==
  /\ isTimerRunning
  /\ isTimerRunning' = FALSE
  /\ ClearTimerInterval
  /\ IF isPlaying THEN PauseGenerativeMusic ELSE MusicUntouched
  /\ UNCHANGED <<timerMinutes, timerSeconds, isBreakMode, completedSessions>>

\* stopTimer(): setTimerRunning(false), clearTimerInterval(),
\* stopGenerativeMusic(), endBreak() or resetTimer(), resetSessionCounter().
StopTimer ==
  /\ isTimerRunning' = FALSE
  /\ ClearTimerInterval
  /\ IF isPlaying THEN StopGenerativeMusic ELSE MusicUntouched
  /\ IF isBreakMode THEN EndBreak ELSE ResetTimer
  /\ completedSessions' = 0

\* finishSession(): setTimerRunning(false), clearTimerInterval(),
\* stopGenerativeMusic(); a finished break returns to work mode, a finished
\* work session is counted and starts the break.
FinishSession ==
  /\ isTimerRunning' = FALSE
  /\ ClearTimerInterval
  /\ IF isPlaying THEN StopGenerativeMusic ELSE MusicUntouched
  /\ IF isBreakMode
       THEN EndBreak /\ UNCHANGED completedSessions
       ELSE /\ completedSessions < MaxSessions
            /\ completedSessions' = completedSessions + 1
            /\ StartBreak(completedSessions + 1)

\* The callback of a live interval, a second after the last: decrementTimer(),
\* and finishSession() when it reports the timer complete.
IntervalFire(id) ==
  /\ id \in liveIntervals
  /\ \/ timerSeconds = 0
     \/ timerSeconds > 60 - MaxElapsed
     \/ timerMinutes = 0 /\ timerSeconds <= MaxElapsed
  /\ IF timerSeconds = 0
       THEN IF timerMinutes = 0
              THEN FinishSession
              ELSE /\ timerMinutes' = timerMinutes - 1
                   /\ timerSeconds' = 59
                   /\ MusicUntouched
                   /\ UNCHANGED <<timerInterval, isTimerRunning, isBreakMode,
                                  completedSessions, liveIntervals>>
       ELSE /\ timerSeconds' = timerSeconds - 1
            /\ MusicUntouched
            /\ UNCHANGED <<timerMinutes, timerInterval, isTimerRunning, isBreakMode,
                           completedSessions, liveIntervals>>

\* The increase button: `if (isRunning) return;` then
\* setTimerValues(minutes + TIME_ADJUSTMENT_STEP, seconds).
IncreaseTime ==
  /\ ~isTimerRunning
  /\ timerMinutes + CONFIG.TIMER.TIME_ADJUSTMENT_STEP <= MaxMinutes
  /\ SetTimerValues(timerMinutes + CONFIG.TIMER.TIME_ADJUSTMENT_STEP, timerSeconds)
  /\ MusicUntouched
  /\ UNCHANGED <<timerInterval, isTimerRunning, isBreakMode, completedSessions,
                 liveIntervals>>

\* The decrease button: `if (isRunning) return;` then, when
\* `minutes >= MIN_TIMER_MINUTES`,
\* setTimerValues(minutes - TIME_ADJUSTMENT_STEP, seconds).
DecreaseTime ==
  /\ ~isTimerRunning
  /\ timerMinutes >= CONFIG.TIMER.MIN_TIMER_MINUTES
  /\ SetTimerValues(timerMinutes - CONFIG.TIMER.TIME_ADJUSTMENT_STEP, timerSeconds)
  /\ MusicUntouched
  /\ UNCHANGED <<timerInterval, isTimerRunning, isBreakMode, completedSessions,
                 liveIntervals>>

\* ------------------------------------------------- the timer state's functions

\* decrementTimer() whose borrow from the minutes leaves the minutes as they are.
DecrementTimerNoBorrow ==
  IF timerSeconds = 0
    THEN IF timerMinutes = 0
           THEN lastReturn' = "true" /\ UNCHANGED <<timerMinutes, timerSeconds>>
           ELSE /\ timerSeconds' = 59
                /\ lastReturn' = "false"
                /\ UNCHANGED timerMinutes
    ELSE /\ timerSeconds' = timerSeconds - 1
         /\ lastReturn' = "false"
         /\ UNCHANGED timerMinutes

\* decrementTimer(): `return true` at 0:00, else one second less and
\* `return false`.
DecrementTimer ==
  IF timerSeconds = 0
    THEN IF timerMinutes = 0
           THEN lastReturn' = "true" /\ UNCHANGED <<timerMinutes, timerSeconds>>
           ELSE /\ timerMinutes' = timerMinutes - 1
                /\ timerSeconds' = 59
                /\ lastReturn' = "false"
    ELSE /\ timerSeconds' = timerSeconds - 1
         /\ lastReturn' = "false"
         /\ UNCHANGED timerMinutes

\* A call that sets the timer's value starts a new count of the seconds.
CountFrom(args) ==
  /\ lastReturn' = "none"
  /\ falseCalls' = 0
  /\ countdownFrom' = 60 * timerMinutes' + timerSeconds'
  /\ lastArgs' = args

\* A call of decrementTimer() is counted when it returned false.
CountCall ==
  /\ falseCalls' = IF lastReturn' = "false" THEN falseCalls + 1 ELSE falseCalls
  /\ UNCHANGED <<countdownFrom, lastArgs>>

\* ------------------------------------------------------------ the page's buttons

\* The data-minutes attributes of the preset buttons.
PresetMinutes == {15, 25}

\* A handler that returned before it touched the timer or the music.
ReturnsAtOnce == UNCHANGED <<timerVars, engineState, controllerVars>>

\* The start button's click handler (the space key clicks the button):
\* pauseTimer() or startTimer(), the label they return, and
\* updateTimeButtonsState().
StartBtnClick ==
  /\ \/ PauseTimer /\ startBtnText' = "RESUME" /\ UNCHANGED stopBtnDisabled
     \/ StartTimer /\ startBtnText' = "PAUSE" /\ stopBtnDisabled' = FALSE
  /\ timeButtonsDisabled' = isTimerRunning'  \* updateTimeButtonsState()

\* The stop button's click handler (the R key clicks the button unless it is
\* disabled; a disabled button receives no click): stopTimer(), the label
\* and the flag it returns, and updateTimeButtonsState().
StopBtnClick ==
  /\ ~stopBtnDisabled
  /\ StopTimer
  /\ startBtnText' = "START"
  /\ stopBtnDisabled' = TRUE
  /\ timeButtonsDisabled' = isTimerRunning'  \* updateTimeButtonsState()

\* The interval's callback on the page: finishSession()'s return value is
\* dropped by the callback, and the callback touches no button.
PageIntervalFire(id) == IntervalFire(id) /\ UNCHANGED uiVars

\* An increase button that adds its step whatever the timer does.
IncreaseBtnClickUnguarded ==
  /\ SetTimerValues(timerMinutes + CONFIG.TIMER.TIME_ADJUSTMENT_STEP, timerSeconds)
  /\ MusicUntouched
  /\ UNCHANGED <<timerInterval, isTimerRunning, isBreakMode, completedSessions,
                 liveIntervals, uiVars>>

\* A press of the increase button: a disabled button receives no click, and
\* the handler starts with `if (isRunning) return;`.
IncreaseBtnClick ==
  /\ IF timeButtonsDisabled \/ isTimerRunning THEN ReturnsAtOnce ELSE IncreaseTime
  /\ UNCHANGED uiVars

\* A press of the decrease button.
DecreaseBtnClick ==
  /\ IF timeButtonsDisabled \/ isTimerRunning
       THEN ReturnsAtOnce
       ELSE \/ DecreaseTime
            \/ timerMinutes < CONFIG.TIMER.MIN_TIMER_MINUTES /\ ReturnsAtOnce
  /\ UNCHANGED uiVars

\* A press of a preset button: `if (isRunning) return;` then
\* setTimerValues(parseInt(data-minutes), 0).
PresetBtnClick(minutes) ==
  /\ IF timeButtonsDisabled \/ isTimerRunning
       THEN ReturnsAtOnce
       ELSE /\ SetTimerValues(minutes, 0)
            /\ MusicUntouched
            /\ UNCHANGED <<timerInterval, isTimerRunning, isBreakMode,
                           completedSessions, liveIntervals>>
  /\ UNCHANGED uiVars

\* The + key: the shortcut checks `isRunning`, then onIncreaseTime clicks the
\* increase button unless it is disabled.
KeyIncrease ==
  /\ IF isTimerRunning
       THEN ReturnsAtOnce
       ELSE IF timeButtonsDisabled THEN ReturnsAtOnce ELSE IncreaseTime
  /\ UNCHANGED uiVars

\* The - key.
KeyDecrease ==
  /\ IF isTimerRunning
       THEN ReturnsAtOnce
       ELSE IF timeButtonsDisabled
              THEN ReturnsAtOnce
              ELSE \/ DecreaseTime
                   \/ timerMinutes < CONFIG.TIMER.MIN_TIMER_MINUTES /\ ReturnsAtOnce
  /\ UNCHANGED uiVars

\* ------------------------------------------------------------------ Transport

\* The running Transport reaches the time of a scheduled loop event and
\* invokes the loop's callback.
Tick(e) ==
  /\ transportState = "started"
  /\ e \in transportEvents
  /\ fired' = e[1]
  /\ transportPosition' = IF transportPosition < MaxPosition
                            THEN transportPosition + 1 ELSE transportPosition
  /\ UNCHANGED <<currentEngine, audioInitialized, transportState, transportBpm,
                 transportEvents, pc, profile, err, returned, components, loops,
                 disposeCount, liveNodes, destInputs, activeSources, latestBegun,
                 stoppedActive, abandoned>>

\* The Tone.Loop behind a scheduled event of a scientific program.
LoopOf(e) ==
  CHOOSE l \in Range(ScientificLoops(ConfigOf(e[1]))) : l.name = e[2]

\* A started loop invokes its callback at startTime + k * interval, k >= 0.
Due(e, t) ==
  /\ t >= LoopOf(e).startTime
  /\ (t - LoopOf(e).startTime) % LoopOf(e).interval = 0

\* The scheduled events whose callback the Transport invokes at its time now.
DueNow == {e \in transportEvents : Due(e, now)}

\* One second of Transport time passes while the Transport runs.
Advance ==
  /\ transportState = "started"
  /\ now < SessionSeconds
  /\ now' = now + 1
  /\ fired' = IF \E e \in transportEvents : Due(e, now + 1)
                 THEN (CHOOSE e \in transportEvents : Due(e, now + 1))[1]
                 ELSE NoEngine
  /\ transportPosition' = IF transportPosition < MaxPosition
                            THEN transportPosition + 1 ELSE transportPosition
  /\ UNCHANGED <<currentEngine, audioInitialized, transportState, transportBpm,
                 transportEvents, pc, profile, err, returned, components, loops,
                 disposeCount, liveNodes, destInputs, activeSources, latestBegun,
                 stoppedActive, abandoned>>

\* What a program held when its start() completed.
Observe ==
  built' = [c \in Calls |->
              IF pc[c] # "fulfilled" /\ pc'[c] = "fulfilled"
                THEN [components |-> components'[c], loops |-> loops'[c]]
                ELSE built[c]]

\* The connections of program c after a step of its createEngine call: those
\* it had, those the step made, less those of a node disconnect() was called
\* on, and the reconnections.
EdgesAfter(c) ==
  LET config == ConfigOf(c)
      options == MasterChainOptions(config)
      mine == {<<e[2], e[3]>> : e \in {f \in edges : f[1] = c}}
  IN
  IF pc[c] \notin InStart /\ pc'[c] = "chainBuild"
    THEN ChainEdgesBeforeAwait(options)
    ELSE IF pc[c] = "chainBuild" /\ pc'[c] \in {"fulfilled", "thunderBuild"}
      THEN {e \in mine \cup ChainEdgesAfterAwait(options) \cup EngineConnects(config) :
              e[1] \notin Disconnected(config)}
             \cup Reconnects(config)
      ELSE IF pc[c] = "thunderBuild" /\ pc'[c] = "fulfilled"
        THEN mine \cup ThunderConnects
        ELSE mine

\* The connection graph after a step: dispose() of a node removes the node's
\* connections with it.
Wire ==
  edges' = {e \in UNION {{<<c, f[1], f[2]>> : f \in EdgesAfter(c)} : c \in Calls} :
              <<e[1], e[2]>> \in liveNodes' /\ <<e[1], e[3]>> \in liveNodes'}

\* ------------------------------------------------------------ golden-ratio walk

\* How many notes a run walks at most.
MaxWalk == 5

\* `const goldenRatio = 1.618033988749`, as whole part and two groups of six
\* decimals.
GoldenRatio == [whole |-> 1, high |-> 618033, low |-> 988749]

\* The sizes of the note sets walked: one note, two, MINIMAL's four and
\* SCIENCE_FOCUS's seven.
NoteCounts == {1, 2, 4, 7}

\* The loops whose callback walks: MinimalEngine's mainLoop and the phasing
\* loops of ScientificFocusEngine.
WalkLoops == {"mainLoop"} \cup Range(PhaseLoopNames)

\* `let noteIndex = 0` in MinimalEngine, `let noteIndex = index` in the
\* phasing loop made for primeIntervals[index].
StartIndex(loop) ==
  IF loop = "mainLoop" THEN 0
  ELSE (CHOOSE i \in DOMAIN PhaseLoopNames : PhaseLoopNames[i] = loop) - 1

\* `(noteIndex + goldenRatio) % notes.length`, digit group by digit group.
AddGolden(x, n) ==
  LET low == x.low + GoldenRatio.low
      high == x.high + GoldenRatio.high + (low \div 1000000)
      whole == x.whole + GoldenRatio.whole + (high \div 1000000)
  IN [whole |-> whole % n, high |-> high % 1000000, low |-> low % 1000000]

\* `(noteIndex + 1) % notes.length`.
AddOne(x, n) == [x EXCEPT !.whole = (@ + 1) % n]

\* `notes[Math.floor(noteIndex)]`: the notes of a set are told apart by their
\* place in it, counted from 1.
NoteAt(x) == x.whole + 1

\* A loop is constructed by start(): the closure's noteIndex and lastNote
\* start the same in every run.
WalkBegin(loop, n) ==
  /\ walkLoop = NoLoop
  /\ walkLoop' = loop
  /\ walkNotes' = n
  /\ noteIndex' = [r \in Runs |-> [IndexZero EXCEPT !.whole = StartIndex(loop)]]
  /\ UNCHANGED <<drawn, lastNote, walked>>

\* The walk of MinimalEngine's mainLoop from noteIndex x with lastNote l:
\* advance by the golden ratio, and by one more when that selects lastNote
\* again.
MainWalk(x, l, n) ==
  LET y == AddGolden(x, n)
  IN IF NoteAt(y) = l /\ n > 1 THEN AddOne(y, n) ELSE y

\* A callback that selects its note with a random number, as the secondary
\* loops do.
LoopCallbackRandomNote(r, gate, humanize, velocity) ==
  /\ walkLoop # NoLoop
  /\ Len(walked[r]) < MaxWalk
  /\ drawn' = [drawn EXCEPT ![r] = [gate |-> gate, humanize |-> humanize,
                                     velocity |-> velocity]]
  /\ IF gate
       THEN /\ lastNote' = [lastNote EXCEPT ![r] = 1 + ((humanize + 1) % walkNotes)]
            /\ walked' = [walked EXCEPT ![r] = Append(@, lastNote'[r])]
       ELSE UNCHANGED <<lastNote, walked>>
  /\ UNCHANGED <<walkLoop, walkNotes, noteIndex>>

\* The Transport invokes the loop's callback in run r, where Math.random()
\* gives the gate, the timing offset and the velocity.  mainLoop walks only
\* when `Math.random() < config.triggerProb`; a phasing loop walks every time
\* and draws only the timing offset.
LoopCallback(r, gate, humanize, velocity) ==
  /\ walkLoop # NoLoop
  /\ Len(walked[r]) < MaxWalk
  /\ IF walkLoop = "mainLoop"
       THEN /\ drawn' = [drawn EXCEPT ![r] =
                 [gate |-> gate, humanize |-> IF gate THEN humanize ELSE 0,
                  velocity |-> IF gate THEN velocity ELSE 0]]
            /\ IF gate
                 THEN LET x == MainWalk(noteIndex[r], lastNote[r], walkNotes) IN
                      /\ noteIndex' = [noteIndex EXCEPT ![r] = x]
                      /\ lastNote' = [lastNote EXCEPT ![r] = NoteAt(x)]
                      /\ walked' = [walked EXCEPT ![r] = Append(@, NoteAt(x))]
                 ELSE UNCHANGED <<noteIndex, lastNote, walked>>
       ELSE LET x == AddGolden(noteIndex[r], walkNotes) IN
            /\ drawn' = [drawn EXCEPT ![r] =
                 [gate |-> TRUE, humanize |-> humanize, velocity |-> 0]]
            /\ noteIndex' = [noteIndex EXCEPT ![r] = x]
            /\ walked' = [walked EXCEPT ![r] = Append(@, NoteAt(x))]
            /\ UNCHANGED lastNote
  /\ UNCHANGED <<walkLoop, walkNotes>>

\* -------------------------------------------------------------- specifications

\* Any caller: lifecycle operations arrive at any suspension point.
Next ==
  \/ \E c \in Calls, id \in ProfileInputs : CreateBegin(c, id)
      /\ UNCHANGED <<clockVars, stepVars, controllerVars, historyVars, appVars>>
  \/ \E c \in Calls : Resume(c)
      /\ UNCHANGED <<clockVars, stepVars, controllerVars, historyVars, appVars>>
  \/ StopEngine
      /\ UNCHANGED <<clockVars, stepVars, controllerVars, historyVars, appVars>>
  \/ DisposeEngine
      /\ UNCHANGED <<clockVars, stepVars, controllerVars, historyVars, appVars>>
  \/ \E e \in transportEvents : Tick(e)
      /\ UNCHANGED <<clockVars, stepVars, controllerVars, historyVars, appVars>>

Spec == Init /\ [][Next]_vars

\* A caller that awaits: no lifecycle operation is issued while a createEngine
\* call is suspended.
SeqNext ==
  \/ \E c \in Calls, id \in ProfileInputs : InFlight = {} /\ CreateBegin(c, id)
      /\ UNCHANGED <<clockVars, stepVars, controllerVars, historyVars, appVars>>
  \/ \E c \in Calls : Resume(c)
      /\ UNCHANGED <<clockVars, stepVars, controllerVars, historyVars, appVars>>
  \/ InFlight = {} /\ StopEngine
      /\ UNCHANGED <<clockVars, stepVars, controllerVars, historyVars, appVars>>
  \/ InFlight = {} /\ DisposeEngine
      /\ UNCHANGED <<clockVars, stepVars, controllerVars, historyVars, appVars>>
  \/ \E e \in transportEvents : Tick(e)
      /\ UNCHANGED <<clockVars, stepVars, controllerVars, historyVars, appVars>>

SeqSpec == Init /\ [][SeqNext]_vars

\* A caller that only ever calls createEngine, awaited or not.
CreateOnlyNext ==
  \/ \E c \in Calls, id \in ProfileInputs : CreateBegin(c, id)
      /\ UNCHANGED <<clockVars, stepVars, controllerVars, historyVars, appVars>>
  \/ \E c \in Calls : Resume(c)
      /\ UNCHANGED <<clockVars, stepVars, controllerVars, historyVars, appVars>>
  \/ \E e \in transportEvents : Tick(e)
      /\ UNCHANGED <<clockVars, stepVars, controllerVars, historyVars, appVars>>

CreateOnlySpec == Init /\ [][CreateOnlyNext]_vars

\* A caller that awaits each createEngine call before the next one, but calls
\* stopEngine, disposeEngine and the methods of the engine objects it was given
\* at any point, also while a createEngine call is suspended.
HandleNext ==
  \/ \E c \in Calls, id \in ProfileInputs : InFlight = {} /\ CreateBegin(c, id)
      /\ UNCHANGED <<clockVars, stepVars, controllerVars, historyVars, appVars>>
  \/ \E c \in Calls : Resume(c)
      /\ UNCHANGED <<clockVars, stepVars, controllerVars, historyVars, appVars>>
  \/ StopEngine
      /\ UNCHANGED <<clockVars, stepVars, controllerVars, historyVars, appVars>>
  \/ DisposeEngine
      /\ UNCHANGED <<clockVars, stepVars, controllerVars, historyVars, appVars>>
  \/ \E p \in Programs : EngineStop(p)
      /\ UNCHANGED <<clockVars, stepVars, controllerVars, historyVars, appVars>>
  \/ \E p \in Programs : EngineDispose(p)
      /\ UNCHANGED <<clockVars, stepVars, controllerVars, historyVars, appVars>>
  \/ \E e \in transportEvents : Tick(e)
      /\ UNCHANGED <<clockVars, stepVars, controllerVars, historyVars, appVars>>

HandleSpec == Init /\ [][HandleNext]_vars

\* The caller of HandleSpec without the direct method calls, with the
\* dispose() inside disposeEngine() followed statement by statement.  dispose()
\* is synchronous: nothing else runs until disposeEngine() has returned.
StepNext ==
  \/ \E c \in Calls, id \in ProfileInputs :
        dpc = NoDispose /\ InFlight = {} /\ CreateBegin(c, id)
          /\ UNCHANGED <<clockVars, stepVars, controllerVars, historyVars, appVars>>
  \/ \E c \in Calls : dpc = NoDispose /\ Resume(c)
      /\ UNCHANGED <<clockVars, stepVars, controllerVars, historyVars, appVars>>
  \/ DisposeEnter /\ UNCHANGED <<clockVars, controllerVars, historyVars, appVars>>
  \/ DisposeStep /\ UNCHANGED <<clockVars, controllerVars, historyVars, appVars>>
  \/ DisposeReturn /\ UNCHANGED <<clockVars, controllerVars, historyVars, appVars>>
  \/ \E e \in transportEvents : dpc = NoDispose /\ Tick(e)
      /\ UNCHANGED <<clockVars, stepVars, controllerVars, historyVars, appVars>>

StepSpec == Init /\ [][StepNext]_vars

\* The audio controller driven by its user: start, pause, stop and profile
\* changes arrive at any point, also while a start is pending.
ControllerNext ==
  \/ \E c \in Calls : StartGenerativeMusic(c)
      /\ UNCHANGED <<clockVars, stepVars, historyVars, appVars>>
  \/ \E c \in Calls : MusicResume(c)
      /\ UNCHANGED <<clockVars, stepVars, historyVars, appVars>>
  \/ PauseGenerativeMusic
      /\ UNCHANGED <<clockVars, stepVars, historyVars, appVars>>
  \/ StopGenerativeMusic
      /\ UNCHANGED <<clockVars, stepVars, historyVars, appVars>>
  \/ \E id \in PickerInputs : SetProfileIdle(id)
      /\ UNCHANGED <<clockVars, stepVars, historyVars, appVars>>
  \/ \E c \in Calls, id \in PickerInputs : SetProfilePlaying(c, id)
      /\ UNCHANGED <<clockVars, stepVars, historyVars, appVars>>
  \/ \E e \in transportEvents : Tick(e)
      /\ UNCHANGED <<clockVars, stepVars, controllerVars, historyVars, appVars>>

ControllerSpec == Init /\ [][ControllerNext]_vars

\* The scientific profile, with and without its texture layer.
PhaseInputs == {"science_focus", "science_no_texture"}

\* The scientific program on a Transport whose time is counted in seconds:
\* createEngine calls, each awaited, and the running Transport.  createEngine
\* sets the Transport's position back to 0.
PhaseNext ==
  \/ \E c \in Calls, id \in PhaseInputs : InFlight = {} /\ CreateBegin(c, id)
      /\ UNCHANGED <<clockVars, stepVars, controllerVars, historyVars, appVars>>
  \/ \E c \in Calls : InitFail(c)
      /\ UNCHANGED <<clockVars, stepVars, controllerVars, historyVars, appVars>>
  \/ \E c \in Calls : InitOk(c) /\ now' = 0
      /\ UNCHANGED <<stepVars, controllerVars, historyVars, appVars>>
  \/ \E c \in Calls : ChainFail(c)
      /\ UNCHANGED <<clockVars, stepVars, controllerVars, historyVars, appVars>>
  \/ \E c \in Calls : ChainOk(c)
      /\ UNCHANGED <<clockVars, stepVars, controllerVars, historyVars, appVars>>
  \/ Advance /\ UNCHANGED <<stepVars, controllerVars, historyVars, appVars>>

PhaseSpec == Init /\ [][PhaseNext]_vars

\* The profiles with an optional layer, with the layer on and off.
BuildInputs == {"science_focus", "science_no_texture", "rain", "rain_no_thunder"}

\* The caller of SeqSpec, with what each start() built put on record.
BuildNext ==
  \/ \E c \in Calls, id \in BuildInputs : InFlight = {} /\ CreateBegin(c, id)
      /\ Observe /\ UNCHANGED <<clockVars, stepVars, controllerVars, appVars>>
  \/ \E c \in Calls : Resume(c)
      /\ Observe /\ UNCHANGED <<clockVars, stepVars, controllerVars, appVars>>
  \/ InFlight = {} /\ StopEngine
      /\ Observe /\ UNCHANGED <<clockVars, stepVars, controllerVars, appVars>>
  \/ InFlight = {} /\ DisposeEngine
      /\ Observe /\ UNCHANGED <<clockVars, stepVars, controllerVars, appVars>>
  \/ \E e \in transportEvents : Tick(e)
      /\ Observe /\ UNCHANGED <<clockVars, stepVars, controllerVars, appVars>>

BuildSpec == Init /\ [][BuildNext]_vars

\* One profile of each engine type.
GraphInputs ==
  {"science_focus", "deep_focus", "binaural_alpha", "brown_noise", "rain", "lofi",
   "minimal", "forest"}

\* The caller of SeqSpec over every engine type, with what each start() built
\* and connected put on record.
GraphNext ==
  \/ \E c \in Calls, id \in GraphInputs : InFlight = {} /\ CreateBegin(c, id)
      /\ Observe /\ Wire
      /\ UNCHANGED <<clockVars, stepVars, controllerVars, timerVars, walkVars, callVars,
                  uiVars, countVars>>
  \/ \E c \in Calls : Resume(c)
      /\ Observe /\ Wire
      /\ UNCHANGED <<clockVars, stepVars, controllerVars, timerVars, walkVars, callVars,
                  uiVars, countVars>>
  \/ InFlight = {} /\ StopEngine
      /\ Observe /\ Wire
      /\ UNCHANGED <<clockVars, stepVars, controllerVars, timerVars, walkVars, callVars,
                  uiVars, countVars>>
  \/ InFlight = {} /\ DisposeEngine
      /\ Observe /\ Wire
      /\ UNCHANGED <<clockVars, stepVars, controllerVars, timerVars, walkVars, callVars,
                  uiVars, countVars>>
  \/ \E e \in transportEvents : Tick(e)
      /\ Observe /\ Wire
      /\ UNCHANGED <<clockVars, stepVars, controllerVars, timerVars, walkVars, callVars,
                  uiVars, countVars>>

GraphSpec == Init /\ [][GraphNext]_vars

\* What Math.random() can give a callback: the gate passes or not, the timing
\* offset is early, none or late, the velocity soft or loud.
Humanizes == {-1, 0, 1}
Velocities == {1, 2}

\* Two runs of one walking loop, each with its own random numbers.
WalkNext ==
  \/ \E loop \in WalkLoops, n \in NoteCounts : WalkBegin(loop, n)
      /\ UNCHANGED <<engineState, clockVars, stepVars, controllerVars, historyVars,
                     graphVars, timerVars, callVars, uiVars, countVars>>
  \/ \E r \in Runs, gate \in BOOLEAN, humanize \in Humanizes, velocity \in Velocities :
        LoopCallback(r, gate, humanize, velocity)
          /\ UNCHANGED <<engineState, clockVars, stepVars, controllerVars, historyVars,
                         graphVars, timerVars, callVars, uiVars, countVars>>

WalkSpec == Init /\ [][WalkNext]_vars

\* The application driven by its user: the start/pause button, the stop
\* button and the profile picker are used at any point, also while a music
\* start is pending.
TimerNext ==
  \/ StartTimer /\ lastHandler' = "startTimer"
      /\ UNCHANGED <<clockVars, stepVars, historyVars, graphVars, walkVars,
                     uiVars, countVars>>
  \/ PauseTimer /\ lastHandler' = "pauseTimer"
      /\ UNCHANGED <<clockVars, stepVars, historyVars, graphVars, walkVars,
                     uiVars, countVars>>
  \/ StopTimer /\ lastHandler' = "stopTimer"
      /\ UNCHANGED <<clockVars, stepVars, historyVars, graphVars, walkVars,
                     uiVars, countVars>>
  \/ \E c \in Calls : MusicResume(c) /\ lastHandler' = "startGenerativeMusic"
      /\ UNCHANGED <<clockVars, stepVars, historyVars, graphVars, timerVars, walkVars,
                     uiVars, countVars>>
  \/ \E id \in PickerInputs : SetProfileIdle(id) /\ lastHandler' = "setProfile"
      /\ UNCHANGED <<clockVars, stepVars, historyVars, graphVars, timerVars, walkVars,
                     uiVars, countVars>>
  \/ \E c \in Calls, id \in PickerInputs :
        SetProfilePlaying(c, id) /\ lastHandler' = "setProfile"
          /\ UNCHANGED <<clockVars, stepVars, historyVars, graphVars, timerVars, walkVars,
                         uiVars, countVars>>
  \/ \E e \in transportEvents : Tick(e) /\ lastHandler' = "loop"
      /\ UNCHANGED <<clockVars, stepVars, controllerVars, historyVars, graphVars,
                     timerVars, walkVars, uiVars, countVars>>

TimerSpec == Init /\ [][TimerNext]_vars

\* The timer with its adjustment buttons and its countdown; the user waits for
\* a pending music start before the next press.
AdjustNext ==
  \/ IncreaseTime
      /\ UNCHANGED <<clockVars, stepVars, historyVars, graphVars, walkVars, callVars,
                  uiVars, countVars>>
  \/ DecreaseTime
      /\ UNCHANGED <<clockVars, stepVars, historyVars, graphVars, walkVars, callVars,
                  uiVars, countVars>>
  \/ InFlight = {} /\ StartTimer
      /\ UNCHANGED <<clockVars, stepVars, historyVars, graphVars, walkVars, callVars,
                  uiVars, countVars>>
  \/ InFlight = {} /\ PauseTimer
      /\ UNCHANGED <<clockVars, stepVars, historyVars, graphVars, walkVars, callVars,
                  uiVars, countVars>>
  \/ InFlight = {} /\ StopTimer
      /\ UNCHANGED <<clockVars, stepVars, historyVars, graphVars, walkVars, callVars,
                  uiVars, countVars>>
  \/ \E id \in liveIntervals : IntervalFire(id)
      /\ UNCHANGED <<clockVars, stepVars, historyVars, graphVars, walkVars, callVars,
                  uiVars, countVars>>
  \/ \E c \in Calls : MusicResume(c)
      /\ UNCHANGED <<clockVars, stepVars, historyVars, appVars>>

AdjustSpec == Init /\ [][AdjustNext]_vars

\* The arguments setTimerValues() is called with: inside and outside the
\* range of a clock.
ArgMinutes == {-5, 0, 1, 2}
ArgSeconds == {-1, 0, 30, 59, 60, 75}

\* The functions of timerState.js called in any order, with the calls of
\* decrementTimer() counted.
StateNext ==
  \/ \E minutes \in ArgMinutes, seconds \in ArgSeconds :
        /\ SetTimerValues(minutes, seconds)
        /\ CountFrom(<<minutes, seconds>>)
        /\ lastHandler' = "setTimerValues"
        /\ UNCHANGED <<timerInterval, isTimerRunning, isBreakMode, completedSessions,
                       liveIntervals>>
        /\ UNCHANGED <<engineState, clockVars, stepVars, controllerVars, historyVars,
                       graphVars, walkVars, uiVars>>
  \/ /\ DecrementTimer
     /\ CountCall
     /\ lastHandler' = "decrementTimer"
     /\ UNCHANGED <<timerInterval, isTimerRunning, isBreakMode, completedSessions,
                    liveIntervals>>
     /\ UNCHANGED <<engineState, clockVars, stepVars, controllerVars, historyVars,
                    graphVars, walkVars, uiVars>>
  \/ /\ ResetTimer
     /\ CountFrom(<<>>)
     /\ lastHandler' = "resetTimer"
     /\ UNCHANGED <<timerInterval, isTimerRunning, completedSessions, liveIntervals>>
     /\ UNCHANGED <<engineState, clockVars, stepVars, controllerVars, historyVars,
                    graphVars, walkVars, uiVars>>
  \/ /\ StartBreak(completedSessions)
     /\ CountFrom(<<>>)
     /\ lastHandler' = "startBreak"
     /\ UNCHANGED <<timerInterval, isTimerRunning, completedSessions, liveIntervals>>
     /\ UNCHANGED <<engineState, clockVars, stepVars, controllerVars, historyVars,
                    graphVars, walkVars, uiVars>>
  \/ /\ EndBreak
     /\ CountFrom(<<>>)
     /\ lastHandler' = "endBreak"
     /\ UNCHANGED <<timerInterval, isTimerRunning, completedSessions, liveIntervals>>
     /\ UNCHANGED <<engineState, clockVars, stepVars, controllerVars, historyVars,
                    graphVars, walkVars, uiVars>>

StateSpec == Init /\ [][StateNext]_vars

\* The page with a countdown paused one second before its end: pauseTimer()
\* has run, the start button reads RESUME and every button is enabled.
PausedNearEnd(break, sessions) ==
  /\ timerMinutes = 0
  /\ timerSeconds = 1
  /\ timerInterval = NoInterval
  /\ isTimerRunning = FALSE
  /\ isBreakMode = break
  /\ completedSessions = sessions
  /\ liveIntervals = {}
  /\ startBtnText = "RESUME"
  /\ stopBtnDisabled = FALSE
  /\ timeButtonsDisabled = FALSE
  /\ lastReturn = "none"
  /\ falseCalls = 0
  /\ countdownFrom = 60 * CONFIG.TIMER.DEFAULT_MINUTES + CONFIG.TIMER.DEFAULT_SECONDS
  /\ lastArgs = <<>>  \* setTimerValues() was not called

\* The page as loaded, or in a later session whose countdown the user paused
\* near its end and whose music never started: a break follows at least one
\* completed session.
SessionInit ==
  /\ InitAudio
  /\ \/ InitTimer
     \/ \E break \in BOOLEAN, sessions \in 0..MaxSessions :
          /\ break => sessions >= 1
          /\ ~break => sessions < MaxSessions
          /\ PausedNearEnd(break, sessions)

\* The page driven by its user and by the countdown; the user waits for a
\* pending music start before the next press of start or stop.
SessionNext ==
  \/ InFlight = {} /\ StartBtnClick /\ lastHandler' = "startBtn"
      /\ UNCHANGED <<clockVars, stepVars, historyVars, graphVars, walkVars, countVars>>
  \/ InFlight = {} /\ StopBtnClick /\ lastHandler' = "stopBtn"
      /\ UNCHANGED <<clockVars, stepVars, historyVars, graphVars, walkVars, countVars>>
  \/ \E id \in liveIntervals :
        /\ PageIntervalFire(id)
        /\ lastHandler' = IF timerMinutes = 0 /\ timerSeconds = 0
                            THEN "finishSession" ELSE "interval"
        /\ UNCHANGED <<clockVars, stepVars, historyVars, graphVars, walkVars, countVars>>
  \/ IncreaseBtnClick /\ lastHandler' = "increaseBtn"
      /\ UNCHANGED <<clockVars, stepVars, historyVars, graphVars, walkVars, countVars>>
  \/ DecreaseBtnClick /\ lastHandler' = "decreaseBtn"
      /\ UNCHANGED <<clockVars, stepVars, historyVars, graphVars, walkVars, countVars>>
  \/ \E minutes \in PresetMinutes : PresetBtnClick(minutes) /\ lastHandler' = "presetBtn"
      /\ UNCHANGED <<clockVars, stepVars, historyVars, graphVars, walkVars, countVars>>
  \/ KeyIncrease /\ lastHandler' = "increaseKey"
      /\ UNCHANGED <<clockVars, stepVars, historyVars, graphVars, walkVars, countVars>>
  \/ KeyDecrease /\ lastHandler' = "decreaseKey"
      /\ UNCHANGED <<clockVars, stepVars, historyVars, graphVars, walkVars, countVars>>
  \/ \E c \in Calls : MusicResume(c) /\ lastHandler' = "startGenerativeMusic"
      /\ UNCHANGED <<clockVars, stepVars, historyVars, graphVars, timerVars, walkVars,
                     uiVars, countVars>>

SessionSpec == SessionInit /\ [][SessionNext]_vars

\* ---------------------------------------------------------------- vocabulary

\* Program p was assigned to currentEngine at some point.
Installed(p) ==
  \/ pc[p] \in InStart \cup {"fulfilled"}
  \/ err[p] \in {"ChainBuildError", "LayerBuildError"}

HoldsResources(p) == components[p] # <<>> \/ loops[p] # <<>>

HasEvents(p) == \E e \in transportEvents : e[1] = p

\* Nodes of program p that exist undisposed, or feed the destination.
Leaked(p) == {n \in liveNodes \cup destInputs : n[1] = p}

Registered(c) == ConfigOf(c).type \in ENGINE_TYPES

\* -------------------------------------------------------------------- claims

\* C1. createEngine calls issued one after the other, each awaited: when a call
\* is fulfilled it resolves to its own program, which is then the active one;
\* every program that ever occupied the slot and is not the active one has been
\* disposed exactly once and holds nothing, and that was already so while the
\* next call was still on its way to installing its program (the slot is empty
\* then); the active program has not been disposed.
C1_OneActiveOthersDisposedOnce ==
  /\ \A c \in Calls : pc[c] = "fulfilled" => returned[c] = c
  /\ \A p \in Programs :
       Installed(p) /\ p # currentEngine =>
         disposeCount[p] = 1 /\ ~HoldsResources(p) /\ ~HasEvents(p)
  /\ \A p \in Programs : disposeCount[p] <= 1
  /\ currentEngine # NoEngine =>
       Installed(currentEngine) /\ disposeCount[currentEngine] = 0
  /\ (\E c \in Calls : pc[c] \in {"toneStart", "initReturn"}) => currentEngine = NoEngine

\* Two calls completed in turn: the second program is active, the first was
\* disposed once.
C1_Witness ==
  /\ pc[1] = "fulfilled" /\ pc[2] = "fulfilled"
  /\ currentEngine = 2
  /\ disposeCount[1] = 1

\* C2. createEngine calls that overlap: once all calls have settled only the
\* active program holds components or loops, and at no time does a program
\* other than the active one have loops scheduled on the Transport.
C2_OnlyActiveHoldsResources ==
  /\ InFlight = {} => \A p \in Programs : HoldsResources(p) => p = currentEngine
  /\ \A e \in transportEvents : e[1] = currentEngine

\* C3. A createEngine call whose program disposeEngine() disposed while the
\* call was suspended inside start(): when the call settles its program holds
\* no components and no loops, none of its loops is scheduled, and the
\* Transport is not running.
C3_DisposeDuringStartReleasesAll ==
  [][\A c \in Calls :
       (c \in abandoned /\ pc[c] \in InStart /\ pc'[c] \in Settled) =>
         /\ components'[c] = <<>>
         /\ loops'[c] = <<>>
         /\ \A e \in transportEvents' : e[1] # c
         /\ transportState' # "started"]_vars

\* C4. When start() rejects, createEngine rejects and leaves no active
\* program and a Transport that is not running.
C4_StartFailureLeavesNoEngine ==
  [][\A c \in Calls :
       (pc[c] \in InStart /\ pc'[c] = "rejected") =>
         currentEngine' = NoEngine /\ transportState' # "started"]_vars

C6_InitFailureLeavesNothing ==
  [][\A c \in Calls :
       /\ (err[c] = "none" /\ err'[c] = "AudioInitError") =>
            /\ pc'[c] = "rejected"
            /\ currentEngine' = NoEngine
            /\ ~Installed(c)' /\ Leaked(c)' = {} /\ ~HoldsResources(c)'
            /\ audioInitialized' = FALSE
       /\ (pc[c] = "idle" /\ pc'[c] # "idle" /\ ~audioInitialized) =>
            pc'[c] = "toneStart"]_vars

\* Initialisation failed in the first call and the second call is waiting on
\* Tone.start() again.
C6_Witness ==
  /\ pc[1] = "rejected" /\ err[1] = "AudioInitError"
  /\ pc[2] = "toneStart"
  /\ ~audioInitialized

\* C7. When reverb generation fails inside createMasterChain, no node the
\* builder constructed is left undisposed or connected to the destination.
C7_FailedBuildReleasesNodes ==
  \A c \in Calls : err[c] = "ChainBuildError" => Leaked(c) = {}

\* C8. The program in the active slot has completed start() and createEngine
\* has started the Transport for it.
C8_ActiveOnlyAfterStart ==
  currentEngine # NoEngine => pc[currentEngine] = "fulfilled"

\* C9. No loop callback of a program that was active when stopEngine()
\* returned is invoked afterwards.
C9_NoCallbackAfterStop ==
  fired = NoEngine \/ fired \notin stoppedActive

\* C10. Once createEngine has reset the Transport and constructed a new
\* program, a loop callback that is invoked belongs to that program, never to
\* an earlier one.
C10_NoCallbackOfEarlierProgram ==
  fired # NoEngine => fired = latestBegun

\* C11. A step of disposeEngine() that disposes the active program p (no
\* createEngine call moves in it): afterwards p's components and loops lists
\* are empty, the active-program slot is empty, and nothing is scheduled on the
\* Transport.
C11_DisposeEngineLeavesNothing ==
  [][\A p \in Programs :
       (currentEngine = p /\ disposeCount'[p] = disposeCount[p] + 1 /\ pc' = pc) =>
         /\ components'[p] = <<>>
         /\ loops'[p] = <<>>
         /\ currentEngine' = NoEngine
         /\ transportEvents' = {}]_vars

\* disposeEngine() has disposed a started program: the next createEngine call
\* has not begun, so nothing else can have disposed it.
C11_Witness ==
  /\ pc[1] = "fulfilled" /\ pc[2] = "idle"
  /\ disposeCount[1] = 1
  /\ currentEngine = NoEngine
  /\ transportState = "stopped" /\ transportEvents = {}

\* The state of the programs and of the engine session (the slot and the
\* initialised flag); the Transport is not part of either.
programVars ==
  <<components, loops, disposeCount, liveNodes, destInputs, activeSources>>
sessionVars == <<currentEngine, audioInitialized>>

\* C12. stopEngine() and disposeEngine() called while the slot is empty change
\* nothing of any program or of the session.  Every dispose() leaves its
\* program's lists empty, and a further dispose() of a program whose lists are
\* still empty releases nothing: no list, node, source or scheduled loop
\* changes.
C12_IdleNoOpAndDisposeTwice ==
  [][/\ (currentEngine = NoEngine /\ (StopEngine \/ DisposeEngine)) =>
          UNCHANGED <<programVars, sessionVars, pc, err>>
     /\ \A p \in Programs :
          (disposeCount'[p] = disposeCount[p] + 1) =>
            /\ components'[p] = <<>> /\ loops'[p] = <<>>
            /\ (disposeCount[p] >= 1 /\ ~HoldsResources(p)) =>
                 /\ UNCHANGED <<components, loops, liveNodes, destInputs, activeSources>>
                 /\ {e \in transportEvents' : e[1] = p} = {e \in transportEvents : e[1] = p}
    ]_vars

\* A started program has been disposed twice, and the slot is empty with the
\* Transport stopped, where stopEngine() and disposeEngine() find nothing to do.
C12_Witness ==
  /\ pc[1] = "fulfilled"
  /\ disposeCount[1] = 2
  /\ currentEngine = NoEngine
  /\ transportState = "stopped"

\* C13. stopEngine() and stop() leave every program's components and loops
\* lists as they are, and a list loses entries only in a dispose() of its
\* program.
C13_OnlyDisposeEmptiesLists ==
  [][/\ (StopEngine \/ \E p \in Programs : EngineStop(p)) => UNCHANGED <<components, loops>>
     /\ \A p \in Programs :
          (\/ Len(components'[p]) < Len(components[p])
           \/ Len(loops'[p]) < Len(loops[p]))
            => disposeCount'[p] = disposeCount[p] + 1
    ]_vars

\* A started program was stopped by stopEngine(): its loops are off the
\* Transport and its lists are still populated.
C13_Witness ==
  /\ pc[1] = "fulfilled" /\ 1 \in stoppedActive
  /\ currentEngine = 1 /\ disposeCount[1] = 0
  /\ ~HasEvents(1) /\ transportState = "stopped"
  /\ components[1] # <<>> /\ loops[1] # <<>>

\* C14. Inside dispose(): as soon as one component of the program has been
\* released, none of the program's loops is scheduled on the Transport any more.
C14_LoopsStoppedBeforeRelease ==
  dpc.prog # NoEngine =>
    ((\E n \in Range(components[dpc.prog]) : <<dpc.prog, n>> \notin liveNodes)
       => ~HasEvents(dpc.prog))

\* dispose() of a program that had loops scheduled is part-way through
\* releasing its components.
C14_Witness ==
  /\ dpc.prog # NoEngine
  /\ DisposeStage = "disposeComponents"
  /\ dpc.index > 1 /\ dpc.index <= Len(components[dpc.prog])
  /\ pc[dpc.prog] = "fulfilled"
  /\ EngineLoops(ConfigOf(dpc.prog)) # <<>>

\* C15. Every start of the audio controller, also one that resumes after a
\* pause, disposes the program it finds in the slot and empties the slot; and
\* a program that enters the slot is one on which start() has not been invoked
\* before: it has never been disposed and holds nothing.
C15_ResumeBuildsNewInstance ==
  [][/\ \A c \in Calls :
          (pc[c] = "idle" /\ pc'[c] # "idle" /\ currentEngine # NoEngine) =>
            /\ disposeCount'[currentEngine] = disposeCount[currentEngine] + 1
            /\ components'[currentEngine] = <<>> /\ loops'[currentEngine] = <<>>
            /\ currentEngine' = NoEngine
     /\ \A p \in Programs :
          (currentEngine' = p /\ currentEngine # p) =>
            /\ pc[p] \in {"toneStart", "initReturn"}
            /\ disposeCount[p] = 0 /\ ~HoldsResources(p)
    ]_vars

\* Music was started, paused and resumed: the paused program has been disposed
\* and another program is playing.
C15_Witness ==
  /\ 1 \in stoppedActive /\ disposeCount[1] = 1
  /\ pc[2] = "fulfilled" /\ currentEngine = 2 /\ disposeCount[2] = 0
  /\ isPlaying

\* C16. Tone.start() is never awaited by two createEngine calls at the same
\* time, and once audio is initialised no call invokes it again.
C16_InitInvokedOnce ==
  [][/\ Cardinality({c \in Calls : pc'[c] = "toneStart"}) <= 1
     /\ \A c \in Calls :
          (audioInitialized /\ pc[c] = "idle") => pc'[c] # "toneStart"]_vars

\* C17. While a start() is suspended, its program has recorded no component
\* and no loop, and none of its loops is scheduled.
C17_SuspendsOnlyBeforePopulating ==
  \A c \in Calls :
    pc[c] \in InStart => ~HoldsResources(c) /\ ~HasEvents(c)

\* The events of the five phasing loops.
IsPhaseLoop(e) == e[2] \in Range(PhaseLoopNames)

\* C18. At no second of the first SessionSeconds seconds of a running
\* Transport are two of the phasing loops (periods 17, 19, 23, 29, 31 s, start
\* times 0, 2, 4, 6, 8 s) due together.
C18_NoTwoLoopsCoincide ==
  (transportState = "started" /\ now < SessionSeconds) =>
    \A e1, e2 \in DueNow : (IsPhaseLoop(e1) /\ IsPhaseLoop(e2)) => e1 = e2

\* The prime-interval config of the claim, and what the claim says its loops are.
ClaimedIntervals == <<17, 19, 23, 29, 31>>
ClaimedStarts == <<0, 2, 4, 6, 8>>

\* Call c has completed start() on a scientific config with those intervals.
StartedScientific(c) ==
  /\ pc[c] = "fulfilled"
  /\ ConfigOf(c).type = "scientific"
  /\ ConfigOf(c).primeIntervals = ClaimedIntervals

\* The first five loops the program registered have the claimed periods and
\* start times, in order.
FivePhasingLoops(c) ==
  /\ Len(built[c].loops) >= 5
  /\ \A i \in 1..5 :
       /\ LoopOf(<<c, built[c].loops[i]>>).interval = ClaimedIntervals[i]
       /\ LoopOf(<<c, built[c].loops[i]>>).startTime = ClaimedStarts[i]

\* C19 as stated. After start() of a scientific program with intervals
\* 17, 19, 23, 29, 31 its loops list holds exactly five loops, with those
\* periods and the start times 0, 2, 4, 6, 8.
C19_ExactlyFiveLoops ==
  \A c \in Calls :
    StartedScientific(c) => FivePhasingLoops(c) /\ Len(built[c].loops) = 5

\* C19 as amended. The loops list starts with those five loops; it holds
\* nothing else when the config switches the texture layer off, and otherwise
\* one more loop, the texture loop, with period 37 and start time 5.
C19_FiveLoopsAndTexture ==
  \A c \in Calls :
    StartedScientific(c) =>
      /\ FivePhasingLoops(c)
      /\ IF ConfigOf(c).textureEnabled
           THEN /\ Len(built[c].loops) = 6
                /\ LoopOf(<<c, built[c].loops[6]>>).interval = 37
                /\ LoopOf(<<c, built[c].loops[6]>>).startTime = 5
           ELSE Len(built[c].loops) = 5

\* The catalogue's scientific profile has been started and has registered its
\* loops.
C19_Witness ==
  /\ pc[1] = "fulfilled" /\ profile[1] = "science_focus"
  /\ currentEngine = 1
  /\ built[1].loops = loops[1] /\ Len(loops[1]) = 6

\* The names of everything the thunder layer makes.
ThunderNames ==
  Range(ThunderCreatedBeforeAwait) \cup Range(ThunderComponents) \cup Range(ThunderLoops)

\* C20. A rain program started with the thunder flag false has a components
\* list exactly 3 shorter and a loops list exactly 1 shorter than one started
\* from the same config with the flag true, and no node or loop of the thunder
\* layer is ever made for it.
C20_ThunderOffThreeFewer ==
  /\ \A c, d \in Calls :
       (/\ pc[c] = "fulfilled" /\ profile[c] = "rain"
        /\ pc[d] = "fulfilled" /\ profile[d] = "rain_no_thunder") =>
         /\ Len(built[d].components) = Len(built[c].components) - 3
         /\ Len(built[d].loops) = Len(built[c].loops) - 1
  /\ \A d \in Calls :
       profile[d] = "rain_no_thunder" =>
         \A n \in liveNodes \cup transportEvents \cup activeSources :
           n[1] = d => n[2] \notin ThunderNames

\* Both rain programs have been started, the one with thunder first.
C20_Witness ==
  /\ pc[1] = "fulfilled" /\ profile[1] = "rain"
  /\ pc[2] = "fulfilled" /\ profile[2] = "rain_no_thunder"
  /\ Len(built[1].components) > Len(built[2].components)
  /\ built[2].components = components[2]

\* ---------------------------------------------------------------------- C21

\* The engine types whose sound is continuous: they register no generator.
ContinuousTypes == {"binaural", "noise"}

\* C21: the registry holds 8 variants, and whenever start() of a program of
\* any of them has completed, the program held at least one component, and at
\* least one generator unless its variant is binaural or noise, which hold
\* none.
C21_EveryVariantPopulates ==
  /\ Cardinality(ENGINE_TYPES) = 8
  /\ \A c \in Calls :
       pc[c] = "fulfilled" =>
         /\ built[c].components # <<>>
         /\ (ConfigOf(c).type \in ContinuousTypes) = (built[c].loops = <<>>)

\* A binaural program and a lo-fi program have both been started.
C21_Witness ==
  /\ pc[1] = "fulfilled" /\ ConfigOf(1).type = "binaural"
  /\ built[1].components # <<>> /\ built[1].loops = <<>>
  /\ pc[2] = "fulfilled" /\ ConfigOf(2).type = "lofi"
  /\ built[2].loops # <<>>

\* ---------------------------------------------------------------------- C22

\* The nodes a set of connections leads to from the nodes of S.
RECURSIVE Downstream(_, _)
Downstream(E, S) ==
  LET T == S \cup {e[2] : e \in {f \in E : f[1] \in S}}
  IN IF T = S THEN S ELSE Downstream(E, T)

\* In program p, node n has a path to the output destination that does not
\* pass through the node `avoid`.
ReachesOutput(p, n, avoid) ==
  LET E == {<<e[2], e[3]>> : e \in {f \in edges : f[1] = p /\ f[2] # avoid /\ f[3] # avoid}}
  IN n # avoid /\ \E m \in Downstream(E, {n}) : <<p, m>> \in destInputs

\* Program c has been started and not disposed.
Started(c) == pc[c] = "fulfilled" /\ disposeCount[c] = 0

\* C22: in a started program whose chain has a delay, the delay has no path to
\* the output destination that bypasses the reverb.
C22_DelayOnlyThroughReverb ==
  \A c \in Calls :
    (Started(c) /\ MasterChainOptions(ConfigOf(c)).delay) =>
      ~ReachesOutput(c, "delayNode", "reverbNode")

\* ---------------------------------------------------------------------- C23

\* C23: two runs of the same walking loop, which differ only in what
\* Math.random() gave their callbacks, select the same k-th walked note for
\* every k both have reached.
C23_WalkIndependentOfDraws ==
  \A k \in 1..MaxWalk :
    (k <= Len(walked[1]) /\ k <= Len(walked[2])) => walked[1][k] = walked[2][k]

\* Both runs of MinimalEngine's gated loop have walked three notes of a set
\* of four, and their last callbacks drew different random numbers.
C23_Witness ==
  /\ walkLoop = "mainLoop" /\ walkNotes = 4
  /\ Len(walked[1]) >= 3 /\ Len(walked[2]) >= 3
  /\ drawn[1] # drawn[2]

\* ---------------------------------------------------------------------- C24

\* Every combination of the chain options that select a node.
AllChainOptions ==
  [delay : BOOLEAN, highPass : BOOLEAN, lowPass : BOOLEAN, bitCrush : BOOLEAN]

\* The limiter, the reverb, and one node per requested option.
RequestedNodes(options) ==
  {"limiter", "reverbNode"}
    \cup (IF options.highPass THEN {"highPassFilter"} ELSE {})
    \cup (IF options.lowPass THEN {"lowPassFilter"} ELSE {})
    \cup (IF options.bitCrush THEN {"bitCrusher"} ELSE {})
    \cup (IF options.delay THEN {"delayNode"} ELSE {})

\* The nodes of program p other than its limiter.
NodesBehindLimiter(p) == {n \in liveNodes : n[1] = p /\ n[2] # "limiter"}

\* C24: for every combination of chain options the handle's components are
\* exactly the limiter, the reverb and one node per requested option; only
\* limiters are ever connected to the output destination; and in a started
\* program the chain's components are those of the options it requested and no
\* node has a path to the destination that avoids the limiter.
C24_OnlyLimiterFeedsOutput ==
  /\ \A options \in AllChainOptions :
       /\ Range(ChainComponents(options)) = RequestedNodes(options)
       /\ Len(ChainComponents(options)) = Cardinality(RequestedNodes(options))
  /\ \A n \in destInputs : n[2] = "limiter"
  /\ \A c \in Calls :
       Started(c) =>
         LET requested == RequestedNodes(MasterChainOptions(ConfigOf(c)))
             k == Cardinality(requested)
         IN /\ Len(built[c].components) >= k
            /\ Range(SubSeq(built[c].components, 1, k)) = requested
            /\ <<c, "limiter">> \in destInputs
            /\ \A n \in NodesBehindLimiter(c) : ~ReachesOutput(c, n[2], "limiter")

\* A started lo-fi program, whose chain has a low-pass, a bit-reduction and a
\* delay: its keys reach the output destination, through the limiter.
C24_Witness ==
  \E c \in Calls :
    /\ Started(c) /\ ConfigOf(c).type = "lofi"
    /\ Range(SubSeq(built[c].components, 1, 5)) =
         {"limiter", "lowPassFilter", "bitCrusher", "reverbNode", "delayNode"}
    /\ ReachesOutput(c, "keys", "none")
    /\ ~ReachesOutput(c, "keys", "limiter")

\* ---------------------------------------------------------------------- C25

\* The tempo a profile sets when it is the first profile ever started:
\* LofiEngine sets config.bpm, every other engine leaves the library's default
\* tempo (written 0).
ProfileTempo(config) == IF config.type = "lofi" THEN config.bpm ELSE 0

\* C25: while a started program is the active one, the Transport tempo, against
\* which the periods of its tempo-relative generators are resolved, is the one
\* its own profile gives, whatever profiles were started before it.
C25_TempoDependsOnProfileOnly ==
  \A c \in Calls :
    (Started(c) /\ currentEngine = c) => transportBpm = ProfileTempo(ConfigOf(c))

\* ---------------------------------------------------------------------- C26

\* C26: whatever the user does and whenever, at most one createEngine call of
\* the audio controller is in flight.
C26_OneCreateInFlight == Cardinality(InFlight) <= 1

\* ---------------------------------------------------------------------- C27

\* C27: once no music start is pending, there is no sound while the timer is
\* not running: isMusicPlaying() is false and the Transport is stopped.  The
\* timer gets out of the running state only by pauseTimer, stopTimer or the end
\* of a session.
C27_SilentWhileTimerNotRunning ==
  (InFlight = {} /\ ~isTimerRunning) => (~isPlaying /\ transportState = "stopped")

\* ---------------------------------------------------------------------- C28

\* C28: when stopTimer has returned and no music start is pending, the slot
\* is empty and the last program constructed holds nothing.
C28_StopTimerEmptiesSession ==
  (lastHandler = "stopTimer" /\ InFlight = {}) =>
    /\ currentEngine = NoEngine
    /\ latestBegun # NoEngine =>
         (components[latestBegun] = <<>> /\ loops[latestBegun] = <<>>)

\* ---------------------------------------------------------------------- C29

\* C29: whenever music is playing and no start is pending, the active program
\* was built from the profile last given to setProfile, or from the default
\* profile when none was given.
C29_PlayingTheSelectedProfile ==
  (isPlaying /\ InFlight = {}) =>
    (currentEngine # NoEngine /\ profile[currentEngine] = currentProfile)

\* ---------------------------------------------------------------------- C30

\* C30: no press of the increase or the decrease button leaves the timer's
\* minutes below MIN_TIMER_MINUTES.
C30_ButtonsKeepMinimum ==
  [][(IncreaseTime \/ DecreaseTime) =>
       timerMinutes' >= CONFIG.TIMER.MIN_TIMER_MINUTES]_vars

\* ---------------------------------------------------------------------- C31

\* The interval's callback found the countdown complete and ran
\* finishSession().
CountdownCompletes ==
  /\ timerMinutes = 0 /\ timerSeconds = 0
  /\ \E id \in liveIntervals : PageIntervalFire(id)

\* C31: a completed work countdown adds one to the session count and begins a
\* break of 15 minutes when the new count is a positive multiple of 4, of 5
\* minutes otherwise; a completed break countdown returns to work mode at
\* 25:00 with the count unchanged; stopTimer leaves count 0 and work mode at
\* 25:00.
C31_SessionCycle ==
  [][/\ (CountdownCompletes /\ ~isBreakMode) =>
          /\ completedSessions' = completedSessions + 1
          /\ isBreakMode'
          /\ timerSeconds' = 0
          /\ timerMinutes' =
               IF completedSessions' % 4 = 0 /\ completedSessions' > 0 THEN 15 ELSE 5
     /\ (CountdownCompletes /\ isBreakMode) =>
          /\ ~isBreakMode'
          /\ timerMinutes' = 25 /\ timerSeconds' = 0
          /\ completedSessions' = completedSessions
     /\ StopBtnClick =>
          /\ completedSessions' = 0
          /\ ~isBreakMode'
          /\ timerMinutes' = 25 /\ timerSeconds' = 0]_vars

\* The fourth work session has just completed and the long break begun.
C31_Witness ==
  /\ lastHandler = "finishSession"
  /\ isBreakMode
  /\ completedSessions = 4
  /\ timerMinutes = 15

\* ---------------------------------------------------------------------- C32

\* C32: decrementTimer() returns true exactly when it is called at 00:00, and
\* then leaves the time as it is; every other call returns false and takes
\* exactly one second off the remaining time.  So the calls that returned
\* false since the time was set to m:s have taken the timer to m:s less their
\* number, and the first call that returns true comes after 60*m + s of them.
C32_DecrementCountsDown ==
  /\ lastReturn = "true" =>
       /\ timerMinutes = 0 /\ timerSeconds = 0
       /\ falseCalls = countdownFrom
  /\ lastReturn = "false" =>
       /\ falseCalls >= 1
       /\ 60 * timerMinutes + timerSeconds = countdownFrom - falseCalls

\* From 2:59 the 180th call was the first to return true.
C32_Witness ==
  /\ lastArgs = <<2, 59>>
  /\ lastReturn = "true"
  /\ falseCalls = 179

\* ---------------------------------------------------------------------- C33

\* C33: whatever integers setTimerValues is given, and however it is mixed
\* with decrementTimer, resetTimer, startBreak and endBreak, the seconds stay
\* within 0..59 and the minutes are never negative.
C33_TimeStaysOnTheClock == timerSeconds \in 0..59 /\ timerMinutes >= 0

\* setTimerValues(-5, 75) was clamped to 0:59 and a second was counted off.
C33_Witness ==
  /\ lastArgs = <<-5, 75>>
  /\ lastHandler = "decrementTimer"
  /\ timerMinutes = 0
  /\ timerSeconds = 58

\* ---------------------------------------------------------------------- C34

\* C34: however starts, pauses, stops and completed countdowns follow one
\* another, at most one countdown interval is live, and between two
\* operations an interval is live exactly when isRunning is true.
C34_OneIntervalWhileRunning ==
  /\ Cardinality(liveIntervals) <= 1
  /\ (liveIntervals # {}) <=> isTimerRunning

\* A countdown has just completed: its interval is cleared and nothing runs.
C34_Witness ==
  /\ lastHandler = "finishSession"
  /\ ~isTimerRunning
  /\ liveIntervals = {}

\* ---------------------------------------------------------------------- C35

\* C35: while the timer is running, a press of the increase, the decrease or
\* a preset button, or of the + or the - key, leaves the timer's minutes and
\* seconds as they are.
C35_NoAdjustingWhileRunning ==
  [][(/\ isTimerRunning
      /\ lastHandler' \in {"increaseBtn", "decreaseBtn", "presetBtn", "increaseKey",
                           "decreaseKey"}) =>
       (timerMinutes' = timerMinutes /\ timerSeconds' = timerSeconds)]_vars

\* A preset button has been pressed while the timer was running.
C35_Witness == isTimerRunning /\ lastHandler = "presetBtn"

\* ---------------------------------------------------------------------- C36

\* C36: after any clicks of start, pause and stop and any completed
\* countdowns, the start button reads PAUSE exactly when the timer is running,
\* and the adjust and preset buttons are disabled exactly when it is running.
C36_ButtonsShowTheTimer ==
  /\ (startBtnText = "PAUSE") <=> isTimerRunning
  /\ timeButtonsDisabled <=> isTimerRunning

====
